---- MODULE Spec2Model ----
(***************************************************************************)
(* Model of ampy's NNTSC protocol client (libampy/nntsc.py) and of its     *)
(* stream hierarchy (libampy/streammanager.py).                            *)
(*                                                                         *)
(* One NNTSCConnection object is modelled.  A call of one of its API       *)
(* functions is a sequence of steps: the call itself, the attempts of      *)
(* _connect, and one step per complete message that _get_nntsc_message     *)
(* hands to the response loop of the function.  The exporter (the peer) is *)
(* the environment: it chooses the next complete message, or the socket    *)
(* fails.  Spec is the specification of the connection object.            *)
(*                                                                         *)
(* One StreamManager object is modelled as well: its nested dictionaries,  *)
(* its reverse map, and one step per call of an API function, the result   *)
(* of which is kept in the state.  StreamSpec is its specification.  Python *)
(* 3 semantics are followed: a dict keeps its keys in insertion order and  *)
(* values of different types do not compare.                               *)
(*                                                                         *)
(* The Ampy object (ampy/ampy.py) is modelled by one step per call of an   *)
(* API function.  The objects it uses that are not part of the sources     *)
(* read here (the view store, the collection modules, the mesh database)   *)
(* answer each call with any of their possible answers; the cache is a map *)
(* with the expiry policies of its specification.  AmpySpec is the         *)
(* specification of the calls that read views, MatrixSpec that of the      *)
(* calls that fill a matrix of amp-tcpping (ampy/ampy.py and               *)
(* libampy/collections/amptcpping.py).                                     *)
(*                                                                         *)
(* One SmokepingParser object (ampy/smokeping.py) is modelled with its     *)
(* three maps and one step per call; SmokeSpec is its specification.       *)
(***************************************************************************)
EXTENDS Integers, Sequences, FiniteSets, TLC

\* ------------------------------------------------------------------ bounds
\* messages one call consumes at most
MaxMsgs == 3
\* failed connection attempts _connect is followed through
MaxAttempts == 2
\* the number of add_stream calls made on the stream manager
MaxAdds == 3
\* add_stream calls made to one smokeping parser
MaxSmokeAdds == 3
\* the steps of the clock that an expiring cache entry lives for
CacheTicks == 2

\* ---------------------------------------------------------------- universe
\* collection ids a caller asks for / the exporter answers for
Collections == {1, 2}
\* collection ids history and matrix data is asked for
HistoryCollections == {1}
\* label names: "A" and "B" are asked for, "C" never is.  The sets of
\* labels asked for: all of them for aggregated history, the small ones for
\* a raw subscription (binsize < 0) and for matrix data, which are read by
\* the same response loop
LabelSets == {{}, {"A"}, {"A", "B"}}
RawLabelSets == {{}, {"A"}}
MatrixLabelSets == {{}, {"A"}}
\* binsize field of a History message: None, zero or a useful value
NoBinsize == -1
Binsizes == {NoBinsize, 0, 300}

\* protocol constants of libnntscclient.protocol, by name
NNTSC_COLLECTIONS == "NNTSC_COLLECTIONS"
NNTSC_STREAMS == "NNTSC_STREAMS"
NNTSC_ACTIVE_STREAMS == "NNTSC_ACTIVE_STREAMS"
NNTSC_HISTORY == "NNTSC_HISTORY"
NNTSC_QUERY_CANCELLED == "NNTSC_QUERY_CANCELLED"
NNTSC_REQ_COLLECTION == "NNTSC_REQ_COLLECTION"
NNTSC_REQ_STREAMS == "NNTSC_REQ_STREAMS"
NNTSC_REQ_ACTIVE_STREAMS == "NNTSC_REQ_ACTIVE_STREAMS"

VARIABLES
    pc,        \* where the connection object is: "idle", "connect", "await"
    client,    \* self.client: "None" or "NNTSCClient"
    attempts,  \* _connect: failed attempts so far
    slept,     \* _connect: number of 30 second sleeps so far
    req,       \* the call in progress (or the last call): op and arguments
    sent,      \* requests sent to the exporter during the call
    data,      \* _parse_nntsc_history: data
    count,     \* _parse_nntsc_history: count
    streams,   \* request_streams: streams
    log,       \* the complete messages the call has consumed, in order
    ret,       \* how the last call ended
    basedict,  \* StreamManager: self.basedict
    sm_streams, \* StreamManager: self.streams
    added,     \* the add_stream calls made so far, with their outcome
    smcall,    \* the last call of a StreamManager function: name, arguments
    smret,     \* what that call returned
    cache,     \* Ampy: the entries of self.cache
    started,   \* Ampy: self.started
    savedcoldata, \* Ampy: self.savedcoldata
    acall,     \* the last call of an Ampy function: name, arguments
    atrace,    \* the calls that it made to the objects Ampy uses, in order
    aret,      \* what it returned
    sp_streams,      \* SmokepingParser: self.streams
    sp_sources,      \* SmokepingParser: self.sources
    sp_destinations, \* SmokepingParser: self.destinations
    spadded,   \* the streams that add_stream was called with, in order
    spcall,    \* the last call of a SmokepingParser function
    spret      \* what that call returned

\* the variables of the connection object, those of the stream manager,
\* those of the Ampy object and those of the smokeping parser
nvars == <<pc, client, attempts, slept, req, sent, data, count, streams, log, ret>>
svars == <<basedict, sm_streams, added, smcall, smret>>
avars == <<cache, started, savedcoldata, acall, atrace, aret>>
pvars == <<sp_streams, sp_sources, sp_destinations, spadded, spcall, spret>>
vars == <<nvars, svars, avars, pvars>>

\* the empty dictionary
EmptyDict == [l \in {} |-> 0]

\* ---------------------------------------------------------------- messages
\* the n-th message of a call carries payload stamped with n, so that the
\* origin and the arrival order of every item stay visible in the results
HistoryMsg(n, c, l, more, b) ==
    [type |-> NNTSC_HISTORY, collection |-> c, streamid |-> l, more |-> more,
     binsize |-> b, data |-> << [label |-> l, seq |-> n] >>]

CancelledMsg(n, c, ls, more) ==
    [type |-> NNTSC_QUERY_CANCELLED, collection |-> c, labels |-> ls,
     more |-> more, start |-> 10 * n, end |-> 10 * n + 10]

StreamsMsg(n, t, c, more) ==
    [type |-> t, collection |-> c, more |-> more,
     streams |-> << [collection |-> c, seq |-> n] >>]

CollectionsMsg(n) ==
    [type |-> NNTSC_COLLECTIONS, collections |-> << n >>]

\* the label lists of the QueryCancelled messages sent to a call that asked
\* for labels: every list of requested labels, and for a single requested
\* label a list that names a label nobody asked for as well
LabelLists(labels) ==
    CASE labels = {"A", "B"} -> { <<"A">>, <<"B">>, <<"A", "B">> }
      [] labels = {"A"} -> { <<"A">>, <<"A", "C">> }
      [] OTHER -> {}

\* what the exporter may send as the n-th message of a history/matrix call
\* for collection c and the given labels: every History and QueryCancelled
\* fragment for the requested labels, terminal fragments for another
\* collection and for a label that was not requested, and messages of the
\* other kinds
HistoryTraffic(n, c, labels) ==
    { HistoryMsg(n, c, l, more, b) :
          l \in labels, more \in BOOLEAN, b \in Binsizes }
    \cup { HistoryMsg(n, 3 - c, "A", FALSE, 300),
           HistoryMsg(n, c, "C", FALSE, 300) }
    \cup { CancelledMsg(n, c, ls, more) :
          ls \in LabelLists(labels), more \in BOOLEAN }
    \cup { CancelledMsg(n, 3 - c, <<"A">>, FALSE),
           CancelledMsg(n, c, <<"C">>, FALSE) }
    \cup { StreamsMsg(n, NNTSC_STREAMS, c, FALSE),
           StreamsMsg(n, NNTSC_ACTIVE_STREAMS, c, FALSE),
           CollectionsMsg(n) }

\* what the exporter may send as the n-th message of a streams call
StreamsTraffic(n, c) ==
    { StreamsMsg(n, t, col, more) :
          t \in {NNTSC_STREAMS, NNTSC_ACTIVE_STREAMS},
          col \in Collections, more \in BOOLEAN }
    \cup { CancelledMsg(n, c, <<"A">>, FALSE),
           HistoryMsg(n, c, "A", FALSE, 300),
           CollectionsMsg(n) }

\* what the exporter may send as the n-th message of a collections call
CollectionsTraffic(n) ==
    { CollectionsMsg(n),
      CancelledMsg(n, 1, <<"A">>, FALSE),
      StreamsMsg(n, NNTSC_STREAMS, 1, FALSE),
      HistoryMsg(n, 1, "A", FALSE, 300) }

\* what the exporter may send as the n-th message of the call r
Traffic(r, n) ==
    CASE r.op = "collections" -> CollectionsTraffic(n)
      [] r.op = "streams" -> StreamsTraffic(n, r.colid)
      [] OTHER -> HistoryTraffic(n, r.colid, r.labels)

\* ------------------------------------------------------------ return values
ReturnNone == [kind |-> "None"]
ReturnValue(v) == [kind |-> "value", value |-> v]
Raised(e) == [kind |-> "raised", error |-> e]
NotReturned == [kind |-> "running"]


\* ------------------------------------------------- _parse_nntsc_history
\* CancelledLabel forgetting to count a terminal QueryCancelled fragment
CancelledLabel_NotCounted(st, lab, m, labels) ==
    IF lab \notin labels THEN st
    ELSE LET d0 == st[1]
             d1 == IF lab \notin DOMAIN d0
                   THEN d0 @@ (lab :> [data |-> <<>>, timedout |-> <<>>])
                   ELSE d0
             d2 == [d1 EXCEPT ![lab] =
                       [@ EXCEPT !.timedout = Append(@, <<m.start, m.end>>)]]
         IN  IF m.more = FALSE
             THEN << IF "freq" \notin DOMAIN d2[lab]
                     THEN [d2 EXCEPT ![lab] = @ @@ [freq |-> 60]]
                     ELSE d2,
                     st[2] >>
             ELSE << d2, st[2] >>

\* the body of "for lab in msg[1]['labels']" for one label of a
\* QueryCancelled message: st is the pair <<data, count>>
CancelledLabel(st, lab, m, labels) ==
    IF lab \notin labels THEN st
    ELSE LET d0 == st[1]
             d1 == IF lab \notin DOMAIN d0
                   THEN d0 @@ (lab :> [data |-> <<>>, timedout |-> <<>>])
                   ELSE d0
             d2 == [d1 EXCEPT ![lab] =
                       [@ EXCEPT !.timedout = Append(@, <<m.start, m.end>>)]]
         IN  IF m.more = FALSE
             THEN << IF "freq" \notin DOMAIN d2[lab]
                     THEN [d2 EXCEPT ![lab] = @ @@ [freq |-> 60]]
                     ELSE d2,
                     st[2] + 1 >>
             ELSE << d2, st[2] >>

\* the loop over msg[1]['labels'], from the i-th label on
RECURSIVE CancelledLabels(_, _, _, _)
CancelledLabels(st, i, m, labels) ==
    IF i > Len(m.labels) THEN st
    ELSE CancelledLabels(CancelledLabel(st, m.labels[i], m, labels),
                         i + 1, m, labels)

\* HandleCancelled without the look at the collection of the message
HandleCancelled_AnyCollection(d, c, m, colid, labels) ==
    LET st == CancelledLabels(<<d, c>>, 1, m, labels)
    IN  [data |-> st[1], count |-> st[2], error |-> "none"]

\* the NNTSC_QUERY_CANCELLED branch
HandleCancelled(d, c, m, colid, labels) ==
    IF m.collection # colid
    THEN [data |-> d, count |-> c, error |-> "none"]
    ELSE LET st == CancelledLabels(<<d, c>>, 1, m, labels)
         IN  [data |-> st[1], count |-> st[2], error |-> "none"]

\* HandleHistory adding the points of a fragment to every entry
HandleHistory_AllEntries(d, c, m, colid, labels) ==
    IF m.collection # colid \/ m.streamid \notin labels
    THEN [data |-> d, count |-> c, error |-> "none"]
    ELSE LET label == m.streamid
             d1 == IF label \notin DOMAIN d
                   THEN d @@ (label :>
                            [data |-> <<>>, timedout |-> <<>>, freq |-> 0])
                   ELSE d
         IN  IF "freq" \notin DOMAIN d1[label]
             THEN [data |-> d1, count |-> c, error |-> "KeyError"]
             ELSE LET d2 == IF d1[label].freq = 0 /\ m.binsize # NoBinsize
                            THEN [d1 EXCEPT ![label].freq = m.binsize]
                            ELSE d1
                      d3 == [l \in DOMAIN d2 |->
                                [d2[l] EXCEPT !.data = @ \o m.data]]
                  IN  [data |-> d3,
                       count |-> IF m.more = FALSE THEN c + 1 ELSE c,
                       error |-> "none"]

\* the NNTSC_HISTORY branch; reading data[label]["freq"] of an entry that
\* a QueryCancelled fragment created without that key raises KeyError
HandleHistory(d, c, m, colid, labels) ==
    IF m.collection # colid \/ m.streamid \notin labels
    THEN [data |-> d, count |-> c, error |-> "none"]
    ELSE LET label == m.streamid
             d1 == IF label \notin DOMAIN d
                   THEN d @@ (label :>
                            [data |-> <<>>, timedout |-> <<>>, freq |-> 0])
                   ELSE d
         IN  IF "freq" \notin DOMAIN d1[label]
             THEN [data |-> d1, count |-> c, error |-> "KeyError"]
             ELSE LET d2 == IF d1[label].freq = 0 /\ m.binsize # NoBinsize
                            THEN [d1 EXCEPT ![label].freq = m.binsize]
                            ELSE d1
                      d3 == [d2 EXCEPT ![label].data = @ \o m.data]
                  IN  [data |-> d3,
                       count |-> IF m.more = FALSE THEN c + 1 ELSE c,
                       error |-> "none"]

\* one pass of the while loop of _parse_nntsc_history on a complete message
ParseHistoryMessage(d, c, m, colid, labels) ==
    CASE m.type = NNTSC_STREAMS ->
             [data |-> d, count |-> c, error |-> "none"]
      [] m.type = NNTSC_QUERY_CANCELLED -> HandleCancelled(d, c, m, colid, labels)
      [] m.type = NNTSC_HISTORY -> HandleHistory(d, c, m, colid, labels)
      [] OTHER -> [data |-> d, count |-> c, error |-> "none"]

\* ------------------------------------------------------- request_streams
\* does the message kind answer the request type
StreamsKindMatches(m, reqtype) ==
    \/ m.type = NNTSC_STREAMS /\ reqtype = NNTSC_REQ_STREAMS
    \/ m.type = NNTSC_ACTIVE_STREAMS /\ reqtype = NNTSC_REQ_ACTIVE_STREAMS

\* ParseStreamsMessage looking at the more flag before the collection
ParseStreamsMessage_MoreFirst(s, m, colid, reqtype) ==
    IF StreamsKindMatches(m, reqtype)
    THEN [streams |-> IF m.collection # colid THEN s ELSE s \o m.streams,
          next |-> IF m.more = FALSE THEN "break" ELSE "continue"]
    ELSE [streams |-> s, next |-> "fail"]

\* one pass of the while loop of request_streams on a complete message:
\* "continue", "break" (return streams) or "fail" (return None)
ParseStreamsMessage(s, m, colid, reqtype) ==
    IF StreamsKindMatches(m, reqtype)
    THEN IF m.collection # colid
         THEN [streams |-> s, next |-> "continue"]
         ELSE [streams |-> s \o m.streams,
               next |-> IF m.more = FALSE THEN "break" ELSE "continue"]
    ELSE [streams |-> s, next |-> "fail"]

\* --------------------------------------------------- request_collections
\* ParseCollectionsMessage answering a timed out query with an empty list
ParseCollectionsMessage_EmptyOnCancel(m) ==
    IF m.type = NNTSC_COLLECTIONS THEN ReturnValue(m.collections)
    ELSE IF m.type = NNTSC_QUERY_CANCELLED THEN ReturnValue(<<>>)
    ELSE ReturnNone

\* the value request_collections returns for the message it received
ParseCollectionsMessage(m) ==
    IF m.type = NNTSC_COLLECTIONS THEN ReturnValue(m.collections)
    ELSE ReturnNone


\* ----------------------------------------------------------------- state
Init ==
    /\ pc = "idle"
    /\ client = "None"
    /\ attempts = 0
    /\ slept = 0
    /\ req = [op |-> "none", colid |-> -1, reqtype |-> "none", labels |-> {}]
    /\ sent = <<>>
    /\ data = EmptyDict
    /\ count = 0
    /\ streams = <<>>
    /\ log = <<>>
    /\ ret = NotReturned
    /\ basedict = <<>>
    /\ sm_streams = EmptyDict
    /\ added = <<>>
    /\ smcall = [op |-> "none"]
    /\ smret = NotReturned
    /\ cache = EmptyDict
    /\ started = FALSE
    /\ savedcoldata = EmptyDict
    /\ acall = [op |-> "none"]
    /\ atrace = <<>>
    /\ aret = NotReturned
    /\ sp_streams = EmptyDict
    /\ sp_sources = EmptyDict
    /\ sp_destinations = EmptyDict
    /\ spadded = <<>>
    /\ spcall = [op |-> "none"]
    /\ spret = NotReturned

\* _disconnect followed by a return of r
DisconnectAndReturn(r) ==
    /\ client' = "None"
    /\ pc' = "idle"
    /\ ret' = r

\* what a call does once self.client is set: it sends its request and
\* enters its response loop.  sendfails says that the client library
\* reported -1 for the request, which only request_history and
\* request_matrix look at.
SendRequest(r, sendfails) ==
    /\ sent' = <<r.reqtype>>
    /\ data' = EmptyDict
    /\ count' = 0
    /\ streams' = <<>>
    /\ IF r.op \in {"history", "matrix"} /\ sendfails
       THEN DisconnectAndReturn(ReturnNone)
       ELSE IF r.op \in {"history", "matrix"} /\ ~(0 < Cardinality(r.labels))
            THEN DisconnectAndReturn(ReturnValue(EmptyDict))
            ELSE /\ client' = "NNTSCClient"
                 /\ pc' = "await"
                 /\ ret' = NotReturned

\* an API function is called with the arguments r; the locals of the
\* previous call are gone.  With a session at hand
\* it sends at once; without one it runs _connect, whose socket() call
\* either fails (the call returns None) or leads into the retry loop.
Call(r) ==
    /\ pc = "idle"
    /\ req' = r
    /\ log' = <<>>
    /\ attempts' = 0
    /\ slept' = 0
    /\ IF client # "None"
       THEN \E sendfails \in BOOLEAN :
                /\ SendRequest(r, sendfails)
       ELSE /\ \/ /\ pc' = "connect"
                  /\ ret' = NotReturned
               \/ /\ pc' = "idle"
                  /\ ret' = ReturnNone
            /\ sent' = <<>>
            /\ data' = EmptyDict
            /\ count' = 0
            /\ streams' = <<>>
            /\ UNCHANGED client
    /\ UNCHANGED <<svars, avars, pvars>>

request_collections ==
    Call([op |-> "collections", colid |-> -1,
          reqtype |-> NNTSC_REQ_COLLECTION, labels |-> {}])

request_streams ==
    \E colid \in Collections :
    \E reqtype \in {NNTSC_REQ_STREAMS, NNTSC_REQ_ACTIVE_STREAMS} :
        Call([op |-> "streams", colid |-> colid,
              reqtype |-> reqtype, labels |-> {}])

request_matrix ==
    \E colid \in HistoryCollections : \E labels \in MatrixLabelSets :
        Call([op |-> "matrix", colid |-> colid,
              reqtype |-> "request_matrix", labels |-> labels])

request_history ==
    \E colid \in HistoryCollections : \E binsize \in {-1, 300} :
    \E labels \in IF binsize < 0 THEN RawLabelSets ELSE LabelSets :
        Call([op |-> "history", colid |-> colid,
              reqtype |-> IF binsize < 0 THEN "subscribe_streams"
                          ELSE "request_aggregate",
              labels |-> labels])

\* the head of a pass of the while loop of _connect after a failed attempt:
\* time.sleep(30).  slept counts the sleeps, and a pass goes on to
\* sock.connect once slept has caught up with attempts
Sleep ==
    /\ pc = "connect"
    /\ slept < attempts
    /\ slept' = slept + 1
    /\ UNCHANGED <<pc, client, attempts, req, sent, data, count, streams, log,
                   ret>>
    /\ UNCHANGED <<svars, avars, pvars>>

\* ConnectFails giving up once a retry has failed
ConnectFails_GivesUp ==
    /\ pc = "connect"
    /\ slept = attempts
    /\ attempts < MaxAttempts
    /\ attempts' = attempts + 1
    /\ IF attempts > 0
       THEN pc' = "idle" /\ ret' = ReturnNone
       ELSE UNCHANGED <<pc, ret>>
    /\ UNCHANGED <<slept, client, req, sent, data, count, streams, log>>
    /\ UNCHANGED <<svars, avars, pvars>>

\* the rest of a pass of the while loop of _connect, sock.connect failing
ConnectFails ==
    /\ pc = "connect"
    /\ slept = attempts
    /\ attempts < MaxAttempts
    /\ attempts' = attempts + 1
    /\ UNCHANGED <<pc, client, slept, req, sent, data, count, streams, log,
                   ret>>
    /\ UNCHANGED <<svars, avars, pvars>>

\* the rest of a pass of the while loop of _connect, sock.connect
\* succeeding: _connect returns the client (its local attempts counter is
\* gone) and the caller goes on to send its request
ConnectSucceeds ==
    /\ pc = "connect"
    /\ slept = attempts
    /\ attempts' = 0
    /\ slept' = 0
    /\ \E sendfails \in BOOLEAN : SendRequest(req, sendfails)
    /\ UNCHANGED <<req, log>>
    /\ UNCHANGED <<svars, avars, pvars>>

\* SocketFails handing back what the call has accumulated so far
SocketFails_ReturnsPartial ==
    /\ pc = "await"
    /\ client' = "None"
    /\ pc' = "idle"
    /\ ret' = IF req.op \in {"history", "matrix"} THEN ReturnValue(data)
              ELSE ReturnNone
    /\ UNCHANGED <<attempts, slept, req, sent, data, count, streams, log>>
    /\ UNCHANGED <<svars, avars, pvars>>

\* _get_nntsc_message: receive_message reports a failure before a complete
\* message has arrived; the session is dropped and the caller returns None
SocketFails ==
    /\ pc = "await"
    /\ DisconnectAndReturn(ReturnNone)
    /\ UNCHANGED <<attempts, slept, req, sent, data, count, streams, log>>
    /\ UNCHANGED <<svars, avars, pvars>>

\* request_collections receives its one message
CollectionsMessage(m) ==
    /\ req.op = "collections"
    /\ DisconnectAndReturn(ParseCollectionsMessage(m))
    /\ UNCHANGED <<data, count, streams>>

\* request_streams receives a message
StreamsMessage(m) ==
    /\ req.op = "streams"
    /\ LET r == ParseStreamsMessage(streams, m, req.colid, req.reqtype)
       IN  /\ streams' = r.streams
           /\ CASE r.next = "continue" -> UNCHANGED <<client, pc, ret>>
                [] r.next = "break" ->
                       DisconnectAndReturn(ReturnValue(r.streams))
                [] OTHER -> DisconnectAndReturn(ReturnNone)
    /\ UNCHANGED <<data, count>>

\* _parse_nntsc_history receives a message
HistoryMessage(m) ==
    /\ req.op \in {"history", "matrix"}
    /\ LET r == ParseHistoryMessage(data, count, m, req.colid, req.labels)
       IN  /\ data' = r.data
           /\ count' = r.count
           /\ IF r.error # "none"
              THEN /\ pc' = "idle"
                   /\ ret' = Raised(r.error)
                   /\ UNCHANGED client
              ELSE IF r.count < Cardinality(req.labels)
                   THEN UNCHANGED <<client, pc, ret>>
                   ELSE DisconnectAndReturn(ReturnValue(r.data))
    /\ UNCHANGED streams

\* _get_nntsc_message hands the next complete message to the response loop
Receive ==
    /\ pc = "await"
    /\ Len(log) < MaxMsgs
    /\ \E m \in Traffic(req, Len(log) + 1) :
           /\ log' = Append(log, m)
           /\ \/ CollectionsMessage(m)
              \/ StreamsMessage(m)
              \/ HistoryMessage(m)
    /\ UNCHANGED <<attempts, slept, req, sent>>
    /\ UNCHANGED <<svars, avars, pvars>>

Next ==
    \/ request_collections
    \/ request_streams
    \/ request_matrix
    \/ request_history
    \/ Sleep
    \/ ConnectFails
    \/ ConnectSucceeds
    \/ SocketFails
    \/ Receive

Spec == Init /\ [][Next]_vars

\* the connection object used for collections and streams requests only,
\* with a peer that is reachable in the end: a sleep ends, and of the
\* attempts that the loop keeps making one succeeds
ConnectNext ==
    \/ request_collections
    \/ request_streams
    \/ Sleep
    \/ ConnectFails
    \/ ConnectSucceeds
    \/ SocketFails
    \/ Receive

ConnectSpec ==
    Init /\ [][ConnectNext]_vars /\ WF_vars(Sleep) /\ SF_vars(ConnectSucceeds)

\* ============================================================ StreamManager
\* Python values that are used as property values: a string is the tuple of
\* the code points of its characters, a boolean the tuple of its integer
\* value.  The type tag keeps "true" and True apart.
Ord == [a |-> 97, e |-> 101, f |-> 102, l |-> 108, r |-> 114, s |-> 115,
        t |-> 116, u |-> 117, c |-> 99, d |-> 100, i |-> 105, m |-> 109,
        n |-> 110, p |-> 112, dash |-> 45, o |-> 111, y |-> 121,
        g |-> 103]
Str(cs) == [t |-> "str", v |-> cs]
PyTrue == [t |-> "bool", v |-> <<1>>]
PyFalse == [t |-> "bool", v |-> <<0>>]
IsStr(x) == x.t = "str"

StrEmpty == Str(<<>>)
StrA == Str(<<Ord.a>>)
StrAl == Str(<<Ord.a, Ord.l>>)
StrLa == Str(<<Ord.l, Ord.a>>)
StrL == Str(<<Ord.l>>)
StrTrue == Str(<<Ord.t, Ord.r, Ord.u, Ord.e>>)
StrFalse == Str(<<Ord.f, Ord.a, Ord.l, Ord.s, Ord.e>>)

\* the order of Python on tuples of integers: strings by code point, False
\* before True
RECURSIVE TupleLt(_, _)
TupleLt(x, y) ==
    IF y = <<>> THEN FALSE
    ELSE IF x = <<>> THEN TRUE
    ELSE IF Head(x) # Head(y) THEN Head(x) < Head(y)
    ELSE TupleLt(Tail(x), Tail(y))

\* x < y of two values of one type
ValLt(x, y) == TupleLt(x.v, y.v)

\* a dict: its items in insertion order, no key twice
DictKeys(d) == [i \in 1..Len(d) |-> d[i].k]
DictValues(d) == [i \in 1..Len(d) |-> d[i].v]
DictHas(d, key) == \E i \in 1..Len(d) : d[i].k = key
DictGet(d, key) == d[CHOOSE i \in 1..Len(d) : d[i].k = key].v
\* d[key] = val
DictSet(d, key, val) ==
    IF DictHas(d, key)
    THEN [i \in 1..Len(d) |-> IF d[i].k = key THEN [k |-> key, v |-> val]
                                               ELSE d[i]]
    ELSE Append(d, [k |-> key, v |-> val])

\* the schema the manager is constructed with
keylist == <<"recurse", "source">>

\* an element of a leaf list: the bare stream id, or the pair of the id and
\* the storage data
NoStorage == "None"
LeafItem(streamid, storage) == [id |-> streamid, storage |-> storage]

\* add_stream on the dictionary curr of level i (the leaf list below the
\* last level): the branch of each value is created when missing, before
\* the next key is looked at, and a missing key ends the walk there
RECURSIVE AddInto(_, _, _, _)
\* AddInto putting the stream in the place of what the leaf held
AddInto_ReplacesLeaf(curr, i, properties, item) ==
    IF i > Len(keylist) THEN <<item>>
    ELSE IF keylist[i] \notin DOMAIN properties THEN curr
    ELSE LET val == properties[keylist[i]]
             withval == IF DictHas(curr, val) THEN curr
                        ELSE DictSet(curr, val, <<>>)
         IN  DictSet(withval, val,
                     AddInto(DictGet(withval, val), i + 1, properties, item))

AddInto(curr, i, properties, item) ==
    IF i > Len(keylist) THEN Append(curr, item)
    ELSE IF keylist[i] \notin DOMAIN properties THEN curr
    ELSE LET val == properties[keylist[i]]
             withval == IF DictHas(curr, val) THEN curr
                        ELSE DictSet(curr, val, <<>>)
         IN  DictSet(withval, val,
                     AddInto(DictGet(withval, val), i + 1, properties, item))

\* the properties have every key of the schema
HasAllKeys(properties) ==
    \A i \in 1..Len(keylist) : keylist[i] \in DOMAIN properties

\* the list key that add_stream builds
KeyOf(properties) == [i \in 1..Len(keylist) |-> properties[keylist[i]]]

\* the dictionary or leaf list that the values in key lead to
RECURSIVE Descend(_, _)
Descend(curr, key) ==
    IF key = <<>> THEN curr ELSE Descend(DictGet(curr, Head(key)), Tail(key))

\* find_streams, index counting the levels already passed
RECURSIVE find_streams_rec(_, _, _, _)
RECURSIVE find_streams_each(_, _, _, _)
\* find_streams_rec taking a value without a branch for a key left out
find_streams_rec_SkipsMissing(properties, searching, index, found) ==
    IF index = Len(keylist) THEN found \o searching
    ELSE LET key == keylist[index + 1] IN
         IF key \in DOMAIN properties /\ DictHas(searching, properties[key])
         THEN find_streams_rec(properties,
                               DictGet(searching, properties[key]),
                               index + 1, found)
         ELSE find_streams_each(properties, DictValues(searching), index,
                                found)

find_streams_rec(properties, searching, index, found) ==
    IF index = Len(keylist) THEN found \o searching
    ELSE LET key == keylist[index + 1] IN
         IF key \in DOMAIN properties
         THEN IF ~DictHas(searching, properties[key]) THEN found
              ELSE find_streams_rec(properties,
                                    DictGet(searching, properties[key]),
                                    index + 1, found)
         ELSE find_streams_each(properties, DictValues(searching), index,
                                found)

\* the loop of find_streams over searching.values()
\* find_streams_each returning from inside the loop, after the first value
find_streams_each_FirstOnly(properties, nextdicts, index, found) ==
    IF nextdicts = <<>> THEN found
    ELSE find_streams_rec(properties, Head(nextdicts), index + 1, found)

find_streams_each(properties, nextdicts, index, found) ==
    IF nextdicts = <<>> THEN found
    ELSE find_streams_each(properties, Tail(nextdicts), index,
             find_streams_rec(properties, Head(nextdicts), index + 1, found))

\* PropertiesOf pairing the keys with the values from the far end
PropertiesOf_Reversed(entry) ==
    [k \in {keylist[i] : i \in 1..Len(keylist)} |->
        entry.key[Len(keylist) + 1
                    - (CHOOSE i \in 1..Len(keylist) : keylist[i] = k)]]

\* what find_stream_properties returns for a stream of self.streams
PropertiesOf(entry) ==
    [k \in {keylist[i] : i \in 1..Len(keylist)} |->
        entry.key[CHOOSE i \in 1..Len(keylist) : keylist[i] = k]]

\* Coerced looking the value up as it was given
Coerced_AsGiven(curr, val0) == val0

\* the value of the key after the boolean strings have been converted
Coerced(curr, val0) ==
    LET val1 == IF ~DictHas(curr, val0) /\ val0 = StrTrue THEN PyTrue
                ELSE val0
    IN  IF ~DictHas(curr, val1) /\ val1 = StrFalse THEN PyFalse ELSE val1

\* the first loop of find_selections from level i on: the selection is
\* invalid, or stops at the first key that is not selected, or covers the
\* whole schema
RECURSIVE SelectedLevel(_, _, _)
SelectedLevel(curr, i, selected) ==
    IF i > Len(keylist) THEN [kind |-> "end"]
    ELSE IF keylist[i] \notin DOMAIN selected
         THEN [kind |-> "open", requested |-> keylist[i], curr |-> curr]
    ELSE LET val == Coerced(curr, selected[keylist[i]]) IN
         IF ~DictHas(curr, val) THEN [kind |-> "invalid"]
         ELSE SelectedLevel(DictGet(curr, val), i + 1, selected)

\* int() of a string of decimal digits, given as the digits
RECURSIVE PyInt(_)
PyInt(digits) ==
    IF digits = <<>> THEN 0
    ELSE 10 * PyInt(SubSeq(digits, 1, Len(digits) - 1)) + digits[Len(digits)]

\* Contains with a pattern whose group may match nothing
Contains_GroupOptional(x, term) ==
    \E i \in 0..Len(x.v) :
        \E n \in {0, Len(term.v)} :
            /\ i + n <= Len(x.v)
            /\ SubSeq(x.v, i + 1, i + n) = SubSeq(term.v, 1, n)

\* x has term as a substring: what re.search of ".*(" + re.escape(term) +
\* ").*" finds in a string
Contains(x, term) ==
    \E i \in 0..(Len(x.v) - Len(term.v)) :
        SubSeq(x.v, i + 1, i + Len(term.v)) = term.v

\* list.sort raises TypeError when it has to compare a str with a bool
Sortable(result) ==
    \A i, j \in 1..Len(result) : result[i].t = result[j].t

\* the second loop of find_selections from result[i] on; it is only run on
\* a list that re.search accepts
RECURSIVE PageLoop(_, _, _, _, _, _, _)
PageLoop(result, i, term, skip, pagesize, seen, filtered) ==
    IF i > Len(result) THEN filtered
    ELSE IF term = StrEmpty \/ Contains(result[i], term)
         THEN IF seen < skip
              THEN PageLoop(result, i + 1, term, skip, pagesize, seen + 1,
                            filtered)
              ELSE LET more == Append(filtered, [id |-> result[i],
                                                text |-> result[i]])
                   IN  IF Len(more) >= pagesize THEN more
                       ELSE PageLoop(result, i + 1, term, skip, pagesize,
                                     seen, more)
    ELSE PageLoop(result, i + 1, term, skip, pagesize, seen, filtered)

\* re.search raises TypeError when the loop reaches a value that is not a
\* string; the list being sorted, that is its first value
SearchRaises(result, term) ==
    term # StrEmpty /\ result # <<>> /\ ~IsStr(result[1])

\* find_selections_of returning what the walk ended at when every key is
\* selected
find_selections_of_LeaksLeaf(dict, selected, term, pageno, pagesize) ==
    LET level == SelectedLevel(dict, 1, selected) IN
    IF level.kind = "invalid" THEN ReturnNone
    ELSE IF level.kind = "end"
         THEN ReturnValue([requested |-> "None",
                           res |-> [kind |-> "list",
                                    items |-> Descend(dict, KeyOf(selected))]])
    ELSE IF ~Sortable(DictKeys(level.curr)) THEN Raised("TypeError")
    ELSE LET result == SortSeq(DictKeys(level.curr), ValLt)
             skip == (PyInt(pageno) * pagesize) - pagesize
         IN  IF SearchRaises(result, term) THEN Raised("TypeError")
             ELSE ReturnValue(
                    [requested |-> level.requested,
                     res |-> [kind |-> "dict",
                              maxitems |-> Len(result),
                              items |-> PageLoop(result, 1, term, skip,
                                                 pagesize, 0, <<>>)]])

\* find_selections on the hierarchy dict
find_selections_of(dict, selected, term, pageno, pagesize) ==
    LET level == SelectedLevel(dict, 1, selected) IN
    IF level.kind = "invalid" THEN ReturnNone
    ELSE IF level.kind = "end"
         THEN ReturnValue([requested |-> "None", res |-> [kind |-> "list"]])
    ELSE IF ~Sortable(DictKeys(level.curr)) THEN Raised("TypeError")
    ELSE LET result == SortSeq(DictKeys(level.curr), ValLt)
             skip == (PyInt(pageno) * pagesize) - pagesize
         IN  IF SearchRaises(result, term) THEN Raised("TypeError")
             ELSE ReturnValue(
                    [requested |-> level.requested,
                     res |-> [kind |-> "dict",
                              maxitems |-> Len(result),
                              items |-> PageLoop(result, 1, term, skip,
                                                 pagesize, 0, <<>>)]])

\* ------------------------------------------------ the calls that are made
\* add_stream calls: two streams in one leaf, one of them with storage
\* data, a stream id added again with other properties, a branch for the
\* string "true" next to the one for True, and properties that lack the
\* last or the first key of the schema
AddCalls ==
    { [streamid |-> 1, storage |-> NoStorage,
       properties |-> [recurse |-> PyTrue, source |-> StrA]],
      [streamid |-> 2, storage |-> "addr",
       properties |-> [recurse |-> PyTrue, source |-> StrA]],
      [streamid |-> 1, storage |-> NoStorage,
       properties |-> [recurse |-> PyTrue, source |-> StrLa]],
      [streamid |-> 3, storage |-> NoStorage,
       properties |-> [recurse |-> StrTrue, source |-> StrAl]],
      [streamid |-> 4, storage |-> NoStorage,
       properties |-> [recurse |-> PyFalse]],
      [streamid |-> 5, storage |-> NoStorage,
       properties |-> [source |-> StrA]] }

StreamIds == {c.streamid : c \in AddCalls}

\* arguments of find_streams: the properties of the streams that are added,
\* the string "true" for the boolean, and dictionaries that leave keys out
StreamQueries ==
    {c.properties : c \in AddCalls}
        \cup { EmptyDict, [recurse |-> PyTrue], [recurse |-> StrTrue],
               [recurse |-> StrTrue, source |-> StrA] }

\* arguments of find_selections; pageno is the string that the caller
\* passes, as its digits
Selections ==
    { EmptyDict, [recurse |-> PyTrue], [recurse |-> StrTrue],
      [recurse |-> PyTrue, source |-> StrA] }
Terms == {StrEmpty, StrL}
Pagenos == {<<1>>, <<2>>}
Pagesizes == {1, 2}

\* ------------------------------------------------------------ the calls
\* add_stream entering the stream in self.streams before the keys are
\* looked at, with an empty value for a key that is missing
add_stream_RecordsFailed ==
    /\ Len(added) < MaxAdds
    /\ \E c \in AddCalls :
        LET ok == HasAllKeys(c.properties)
            newdict == AddInto(basedict, 1, c.properties,
                               LeafItem(c.streamid, c.storage))
        IN  /\ basedict' = newdict
            /\ sm_streams' =
                 [id \in DOMAIN sm_streams \cup {c.streamid} |->
                     IF id = c.streamid
                     THEN [key |-> [i \in 1..Len(keylist) |->
                                      IF keylist[i] \in DOMAIN c.properties
                                      THEN c.properties[keylist[i]]
                                      ELSE StrEmpty],
                           storage |-> c.storage]
                     ELSE sm_streams[id]]
            /\ added' = Append(added, [call |-> c, ok |-> ok])
            /\ smcall' = [op |-> "add_stream", streamid |-> c.streamid,
                          storage |-> c.storage, properties |-> c.properties]
            /\ smret' = IF ok
                        THEN ReturnValue(Descend(newdict, KeyOf(c.properties)))
                        ELSE ReturnNone
    /\ UNCHANGED <<nvars, avars, pvars>>

add_stream ==
    /\ Len(added) < MaxAdds
    /\ \E c \in AddCalls :
        LET ok == HasAllKeys(c.properties)
            newdict == AddInto(basedict, 1, c.properties,
                               LeafItem(c.streamid, c.storage))
        IN  /\ basedict' = newdict
            /\ sm_streams' =
                 IF ok
                 THEN [id \in DOMAIN sm_streams \cup {c.streamid} |->
                         IF id = c.streamid
                         THEN [key |-> KeyOf(c.properties),
                               storage |-> c.storage]
                         ELSE sm_streams[id]]
                 ELSE sm_streams
            /\ added' = Append(added, [call |-> c, ok |-> ok])
            /\ smcall' = [op |-> "add_stream", streamid |-> c.streamid,
                          storage |-> c.storage, properties |-> c.properties]
            /\ smret' = IF ok
                        THEN ReturnValue(Descend(newdict, KeyOf(c.properties)))
                        ELSE ReturnNone
    /\ UNCHANGED <<nvars, avars, pvars>>

find_stream_properties ==
    /\ \E streamid \in StreamIds :
        /\ smcall' = [op |-> "find_stream_properties", streamid |-> streamid]
        /\ smret' = IF streamid \notin DOMAIN sm_streams THEN ReturnNone
                    ELSE ReturnValue(PropertiesOf(sm_streams[streamid]))
    /\ UNCHANGED <<basedict, sm_streams, added>>
    /\ UNCHANGED <<nvars, avars, pvars>>

find_streams ==
    /\ \E properties \in StreamQueries :
        /\ smcall' = [op |-> "find_streams", properties |-> properties]
        /\ smret' = ReturnValue(find_streams_rec(properties, basedict, 0, <<>>))
    /\ UNCHANGED <<basedict, sm_streams, added>>
    /\ UNCHANGED <<nvars, avars, pvars>>

find_selections ==
    /\ \E selected \in Selections, term \in Terms, pageno \in Pagenos,
          pagesize \in Pagesizes :
        /\ smcall' = [op |-> "find_selections", selected |-> selected,
                      term |-> term, pageno |-> pageno,
                      pagesize |-> pagesize]
        /\ smret' = find_selections_of(basedict, selected, term, pageno,
                                       pagesize)
    /\ UNCHANGED <<basedict, sm_streams, added>>
    /\ UNCHANGED <<nvars, avars, pvars>>

StreamNext ==
    \/ add_stream
    \/ find_stream_properties
    \/ find_streams
    \/ find_selections

StreamSpec == Init /\ [][StreamNext]_vars


\* ================================================= the smokeping parser
\* The maps of SmokepingParser (ampy/smokeping.py): self.streams from the
\* pair (source, host) to the stream id, self.sources from a host to the
\* dictionary of the sources that test to it, self.destinations from a
\* source to the dictionary of the hosts it tests to.  The inner
\* dictionaries have the value 1 for every key; keys() is read as the set
\* of the keys.
SmokeSources == {"s1", "s2"}
SmokeHosts == {"h1", "h2"}

\* add_stream replacing the sources of the host by the new source
smokeping_add_stream_ForgetsSources ==
    /\ Len(spadded) < MaxSmokeAdds
    /\ \E s \in {[source |-> "s1", host |-> "h1", stream_id |-> 1],
                 [source |-> "s1", host |-> "h1", stream_id |-> 2],
                 [source |-> "s1", host |-> "h2", stream_id |-> 3],
                 [source |-> "s2", host |-> "h1", stream_id |-> 4],
                 [source |-> "s2", host |-> "h2", stream_id |-> 5]} :
        /\ sp_sources' =
             [h \in DOMAIN sp_sources \cup {s.host} |->
                IF h # s.host THEN sp_sources[h]
                ELSE [src \in {s.source} |-> 1]]
        /\ sp_destinations' =
             [src \in DOMAIN sp_destinations \cup {s.source} |->
                IF src # s.source THEN sp_destinations[src]
                ELSE IF src \in DOMAIN sp_destinations
                THEN [h \in DOMAIN sp_destinations[src] \cup {s.host} |-> 1]
                ELSE [h \in {s.host} |-> 1]]
        /\ sp_streams' =
             [key \in DOMAIN sp_streams \cup {<<s.source, s.host>>} |->
                IF key = <<s.source, s.host>> THEN s.stream_id
                ELSE sp_streams[key]]
        /\ spadded' = Append(spadded, s)
        /\ spcall' = [op |-> "add_stream", s |-> s]
        /\ spret' = ReturnNone
    /\ UNCHANGED <<nvars, svars, avars>>

\* add_stream: the streams of two sources and two hosts, one pair of
\* which has two stream ids
smokeping_add_stream ==
    /\ Len(spadded) < MaxSmokeAdds
    /\ \E s \in {[source |-> "s1", host |-> "h1", stream_id |-> 1],
                 [source |-> "s1", host |-> "h1", stream_id |-> 2],
                 [source |-> "s1", host |-> "h2", stream_id |-> 3],
                 [source |-> "s2", host |-> "h1", stream_id |-> 4],
                 [source |-> "s2", host |-> "h2", stream_id |-> 5]} :
        /\ sp_sources' =
             [h \in DOMAIN sp_sources \cup {s.host} |->
                IF h # s.host THEN sp_sources[h]
                ELSE IF h \in DOMAIN sp_sources
                THEN [src \in DOMAIN sp_sources[h] \cup {s.source} |-> 1]
                ELSE [src \in {s.source} |-> 1]]
        /\ sp_destinations' =
             [src \in DOMAIN sp_destinations \cup {s.source} |->
                IF src # s.source THEN sp_destinations[src]
                ELSE IF src \in DOMAIN sp_destinations
                THEN [h \in DOMAIN sp_destinations[src] \cup {s.host} |-> 1]
                ELSE [h \in {s.host} |-> 1]]
        /\ sp_streams' =
             [key \in DOMAIN sp_streams \cup {<<s.source, s.host>>} |->
                IF key = <<s.source, s.host>> THEN s.stream_id
                ELSE sp_streams[key]]
        /\ spadded' = Append(spadded, s)
        /\ spcall' = [op |-> "add_stream", s |-> s]
        /\ spret' = ReturnNone
    /\ UNCHANGED <<nvars, svars, avars>>

\* get_stream_id: the parameters name a pair, or lack 'source' or 'host'
get_stream_id ==
    /\ \E params \in
            {[source |-> s, host |-> h] :
                s \in SmokeSources, h \in SmokeHosts}
            \cup {[source |-> s] : s \in SmokeSources}
            \cup {[host |-> h] : h \in SmokeHosts}
            \cup {EmptyDict} :
        /\ spcall' = [op |-> "get_stream_id", params |-> params]
        /\ spret' =
             IF "source" \notin DOMAIN params THEN ReturnValue(-1)
             ELSE IF "host" \notin DOMAIN params THEN ReturnValue(-1)
             ELSE IF <<params["source"], params["host"]>>
                        \notin DOMAIN sp_streams
             THEN ReturnValue(-1)
             ELSE ReturnValue(sp_streams[<<params["source"],
                                           params["host"]>>])
    /\ UNCHANGED <<sp_streams, sp_sources, sp_destinations, spadded>>
    /\ UNCHANGED <<nvars, svars, avars>>

\* _get_sources of a host, or of None for all sources
get_sources ==
    /\ \E dst \in SmokeHosts \cup {"None"} :
        /\ spcall' = [op |-> "_get_sources", dst |-> dst]
        /\ spret' =
             IF dst # "None"
             THEN IF dst \notin DOMAIN sp_sources THEN ReturnValue({})
                  ELSE ReturnValue(DOMAIN sp_sources[dst])
             ELSE ReturnValue(UNION {DOMAIN sp_sources[h] :
                                        h \in DOMAIN sp_sources})
    /\ UNCHANGED <<sp_streams, sp_sources, sp_destinations, spadded>>
    /\ UNCHANGED <<nvars, svars, avars>>

\* _get_destinations of a source, or of None for all destinations
get_destinations ==
    /\ \E src \in SmokeSources \cup {"None"} :
        /\ spcall' = [op |-> "_get_destinations", src |-> src]
        /\ spret' =
             IF src # "None"
             THEN IF src \notin DOMAIN sp_destinations THEN ReturnValue({})
                  ELSE ReturnValue(DOMAIN sp_destinations[src])
             ELSE ReturnValue(UNION {DOMAIN sp_destinations[s] :
                                        s \in DOMAIN sp_destinations})
    /\ UNCHANGED <<sp_streams, sp_sources, sp_destinations, spadded>>
    /\ UNCHANGED <<nvars, svars, avars>>

SmokeNext ==
    \/ smokeping_add_stream
    \/ get_stream_id
    \/ get_sources
    \/ get_destinations

SmokeSpec == Init /\ [][SmokeNext]_vars

\* ======================================================== the log, read back
\* The properties below are stated over the log of consumed messages, not
\* over the way the response loops fold it.

HistoryCall == req.op = "history"
\* request_matrix reads its answer with the same loop
ParserCall == req.op \in {"history", "matrix"}
Returned == pc = "idle" /\ ret.kind = "value"

\* the fragments of the log addressed to label l of the requested collection
IsHistoryFor(m, l) ==
    m.type = NNTSC_HISTORY /\ m.collection = req.colid /\ m.streamid = l
IsCancelledFor(m, l) ==
    /\ m.type = NNTSC_QUERY_CANCELLED
    /\ m.collection = req.colid
    /\ \E i \in 1..Len(m.labels) : m.labels[i] = l
IsFragmentFor(m, l) == IsHistoryFor(m, l) \/ IsCancelledFor(m, l)

HistoryFragments(l) == SelectSeq(log, LAMBDA m : IsHistoryFor(m, l))
CancelledFragments(l) == SelectSeq(log, LAMBDA m : IsCancelledFor(m, l))
Fragments(l) == SelectSeq(log, LAMBDA m : IsFragmentFor(m, l))

\* label l has received a terminal fragment
Complete(l) ==
    \E i \in 1..Len(log) : IsFragmentFor(log[i], l) /\ log[i].more = FALSE

RECURSIVE ConcatData(_)
ConcatData(ms) ==
    IF ms = <<>> THEN <<>> ELSE Head(ms).data \o ConcatData(Tail(ms))

Ranges(ms) == [i \in 1..Len(ms) |-> <<ms[i].start, ms[i].end>>]

\* ------------------------------------------------------------------- C1
\* C1: a history call with N requested labels returns a dictionary with
\* exactly N entries, one per requested label.
C1_ExactlyOneEntryPerLabel ==
    (HistoryCall /\ Returned) => DOMAIN ret.value = req.labels

\* ------------------------------------------------------------------- C2
\* C2: a history call returns a result only when every requested label has
\* received a terminal (more=false) History or QueryCancelled fragment.
C2_ReturnsOnlyWhenAllComplete ==
    (HistoryCall /\ Returned) => \A l \in req.labels : Complete(l)

\* ------------------------------------------------------------------- C3
\* C3: whatever the interleaving of History and QueryCancelled fragments of
\* a label, the history call does not fail on it, and on return the label's
\* data is the concatenation of its History fragments and its timedout the
\* ranges of its QueryCancelled fragments, both in arrival order.
C3_FragmentsMergedInArrivalOrder ==
    HistoryCall =>
        /\ ret.kind # "raised"
        /\ Returned =>
               \A l \in DOMAIN ret.value :
                   /\ ret.value[l].data = ConcatData(HistoryFragments(l))
                   /\ ret.value[l].timedout = Ranges(CancelledFragments(l))

\* ------------------------------------------------------------------- C4
\* the only fragments label l has received are terminal QueryCancelled ones
OnlyCancelled(l) ==
    /\ Fragments(l) # <<>>
    /\ \A i \in 1..Len(log) :
           IsFragmentFor(log[i], l) =>
               log[i].type = NNTSC_QUERY_CANCELLED /\ log[i].more = FALSE

\* C4: a requested label whose only fragment is a terminal QueryCancelled
\* is complete: the call is no longer waiting once the other labels are
\* complete too, and in the result the label has empty data and a
\* non-empty timedout list.
C4_CancelledOnlyLabelCompletes ==
    ParserCall =>
        \A l \in req.labels :
            OnlyCancelled(l) =>
                /\ (\A o \in req.labels \ {l} : Complete(o)) => pc # "await"
                /\ Returned =>
                       /\ l \in DOMAIN ret.value
                       /\ ret.value[l].data = <<>>
                       /\ ret.value[l].timedout # <<>>

C4_Witness ==
    /\ HistoryCall /\ Returned
    /\ req.labels = {"A", "B"}
    /\ OnlyCancelled("A")
    /\ HistoryFragments("B") # <<>>
    /\ ret.value["A"].data = <<>>
    /\ Len(ret.value["A"].timedout) = 1
    /\ Len(ret.value["B"].data) >= 1

\* ------------------------------------------------------------------- C5
\* message kinds a history call does not expect
Unexpected(m) == m.type \in {NNTSC_COLLECTIONS, NNTSC_ACTIVE_STREAMS}

\* C5: a history call that receives a message of an unexpected kind fails:
\* it returns None and is not waiting for more messages.
C5_UnexpectedKindFailsCall ==
    (HistoryCall /\ \E i \in 1..Len(log) : Unexpected(log[i]))
        => (pc = "idle" /\ ret = ReturnNone)


\* ------------------------------------------------------------------- C6
\* the step in which the socket fails under a waiting call: the call ends
\* without having consumed a further message
SocketFailureStep == pc = "await" /\ pc' = "idle" /\ log' = log

\* C6: when the socket fails while a history call is waiting for fragments,
\* the call returns None, whatever it had accumulated, and the session is
\* closed.
C6_SocketFailureReturnsNone ==
    [][(ParserCall /\ SocketFailureStep)
           => (ret' = ReturnNone /\ client' = "None")]_vars

C6_Witness ==
    /\ HistoryCall /\ pc = "idle" /\ ret = ReturnNone /\ client = "None"
    /\ req.labels = {"A", "B"}
    /\ Complete("A") /\ ~Complete("B")
    /\ "A" \in DOMAIN data /\ Len(data["A"].data) >= 1

\* ------------------------------------------------------------------- C7
PointsOfOwnLabel(d) ==
    \A l \in DOMAIN d :
        \A i \in 1..Len(d[l].data) : d[l].data[i].label = l

\* C7: the data of a label holds only points that History fragments of that
\* label carried, while the call accumulates and in the result it returns.
C7_NoCrossContamination ==
    ParserCall =>
        /\ PointsOfOwnLabel(data)
        /\ Returned => PointsOfOwnLabel(ret.value)

C7_Witness ==
    /\ HistoryCall /\ Returned
    /\ req.labels = {"A", "B"}
    /\ Len(log) = 3
    /\ IsHistoryFor(log[1], "A") /\ IsHistoryFor(log[2], "B")
    /\ IsHistoryFor(log[3], "A")
    /\ Len(ret.value["A"].data) = 2
    /\ Len(ret.value["B"].data) = 1

\* ------------------------------------------------------------------- C8
\* C8: between calls the connection holds no session, so that the next
\* call never finds one to reuse.
C8_NoSessionBetweenCalls ==
    pc = "idle" => client = "None"


\* ------------------------------------------------------------------- C9
StreamsCall == req.op = "streams"

\* m is a batch of the kind the streams call asked for
AnswersRequest(m) ==
    \/ m.type = NNTSC_STREAMS /\ req.reqtype = NNTSC_REQ_STREAMS
    \/ m.type = NNTSC_ACTIVE_STREAMS /\ req.reqtype = NNTSC_REQ_ACTIVE_STREAMS
\* ... and for the collection it asked for
MatchingBatch(m) == AnswersRequest(m) /\ m.collection = req.colid

RECURSIVE ConcatStreams(_)
ConcatStreams(ms) ==
    IF ms = <<>> THEN <<>> ELSE Head(ms).streams \o ConcatStreams(Tail(ms))

\* the result is the concatenation of the matching batches, the last
\* message consumed being the first matching batch with more=false
StreamsResultIsConcatenation ==
    (StreamsCall /\ Returned) =>
        /\ Len(log) >= 1
        /\ MatchingBatch(log[Len(log)]) /\ log[Len(log)].more = FALSE
        /\ \A i \in 1..(Len(log) - 1) :
               /\ AnswersRequest(log[i])
               /\ MatchingBatch(log[i]) => log[i].more = TRUE
        /\ ret.value = ConcatStreams(SelectSeq(log, MatchingBatch))

\* a batch of the requested kind for another collection is skipped: the
\* call goes on waiting and its accumulated list is unchanged
OtherCollectionBatchSkipped ==
    (StreamsCall /\ pc = "await" /\ Len(log') = Len(log) + 1) =>
        LET m == log'[Len(log')]
        IN  (AnswersRequest(m) /\ m.collection # req.colid)
                => (pc' = "await" /\ streams' = streams /\ ret' = ret)

\* C9: request_streams returns the concatenation, in arrival order, of the
\* batches of the requested kind and collection up to the first with
\* more=false; batches for another collection are skipped and never end
\* the accumulation.
C9_StreamsAccumulateUntilLastBatch ==
    /\ []StreamsResultIsConcatenation
    /\ [][OtherCollectionBatchSkipped]_vars

C9_Witness ==
    /\ StreamsCall /\ Returned
    /\ Len(log) = 3
    /\ MatchingBatch(log[1]) /\ log[1].more = TRUE
    /\ AnswersRequest(log[2]) /\ log[2].collection # req.colid
    /\ log[2].more = FALSE
    /\ MatchingBatch(log[3])
    /\ Len(ret.value) = 2

\* ------------------------------------------------------------------ C10
CollectionsCall == req.op = "collections"

\* C10: request_collections sends one request and consumes one complete
\* message; it returns the collections of a Collections message and None
\* for a message of any other kind or when no complete message arrives.
C10_CollectionsSingleRoundTrip ==
    CollectionsCall =>
        /\ Len(sent) <= 1 /\ Len(log) <= 1
        /\ ret.kind # "raised"
        /\ pc = "await" => (Len(log) = 0 /\ sent = <<NNTSC_REQ_COLLECTION>>)
        /\ Len(log) = 1 =>
               /\ pc = "idle"
               /\ sent = <<NNTSC_REQ_COLLECTION>>
               /\ ret = IF log[1].type = NNTSC_COLLECTIONS
                        THEN ReturnValue(log[1].collections)
                        ELSE ReturnNone
        /\ (pc = "idle" /\ Len(log) = 0) => ret = ReturnNone

C10_Witness ==
    /\ CollectionsCall /\ Returned
    /\ sent = <<NNTSC_REQ_COLLECTION>>
    /\ Len(log) = 1 /\ log[1].type = NNTSC_COLLECTIONS
    /\ ret.value = log[1].collections


\* ------------------------------------------------------------------ C11
\* a step taken inside the retry loop of _connect is a sleep of 30 seconds
\* that a failed attempt has made due, a failed attempt (never the first
\* one without its sleep), or the successful attempt, after which the
\* request has been sent on the new client
ConnectLoopStep ==
    pc = "connect" =>
        \/ /\ pc' = "connect" /\ ret' = NotReturned
           /\ attempts > 0 /\ slept = attempts - 1
           /\ slept' = slept + 1 /\ attempts' = attempts
        \/ /\ pc' = "connect" /\ ret' = NotReturned
           /\ slept = attempts
           /\ slept' = slept /\ attempts' = attempts + 1
        \/ /\ pc' # "connect"
           /\ slept = attempts
           /\ sent' = <<req.reqtype>>

SuccessfulAdds == {i \in 1..Len(added) : added[i].ok}
AddedItem(i) == LeafItem(added[i].call.streamid, added[i].call.storage)
\* a stream with these properties is wanted by the query
Matches(properties, query) ==
    \A k \in DOMAIN query : properties[k] = query[k]
MatchingAdds(query) ==
    {i \in SuccessfulAdds : Matches(added[i].call.properties, query)}
FoundStreams == smcall.op = "find_streams"
Occurrences(seq, x) == Cardinality({j \in 1..Len(seq) : seq[j] = x})

\* ------------------------------------------------------------------ C12
\* C12: a stream added with all the keys of the schema is in the list that
\* find_streams returns for exactly its properties, whatever was added
\* before or after it.
C12_AddedStreamIsFound ==
    FoundStreams =>
        \A i \in SuccessfulAdds :
            added[i].call.properties = smcall.properties =>
                \E j \in 1..Len(smret.value) : smret.value[j] = AddedItem(i)

C12_Witness ==
    /\ FoundStreams
    /\ \E i, j \in SuccessfulAdds :
        /\ i < j
        /\ added[i].call.streamid # added[j].call.streamid
        /\ added[i].call.properties = smcall.properties
        /\ added[j].call.properties = smcall.properties
    /\ Len(smret.value) >= 2

\* ------------------------------------------------------------------ C13
\* C13: the ids in the list that find_streams returns for the empty
\* dictionary are the ids of the streams that were added, which does not
\* depend on the order of the calls.
C13_WildcardFindsEveryAddedId ==
    (FoundStreams /\ DOMAIN smcall.properties = {}) =>
        {smret.value[j].id : j \in 1..Len(smret.value)}
            = {added[i].call.streamid : i \in SuccessfulAdds}

C13_Witness ==
    /\ FoundStreams
    /\ DOMAIN smcall.properties = {}
    /\ Cardinality({added[i].call.properties.recurse : i \in SuccessfulAdds})
           >= 2
    /\ Cardinality({smret.value[j].id : j \in 1..Len(smret.value)}) >= 2
    /\ \E i \in 1..Len(added) : ~added[i].ok

\* ------------------------------------------------------------------ C14
\* the streams that were added with exactly these properties, in the order
\* of the calls
RECURSIVE LeafAdds(_, _)
LeafAdds(properties, n) ==
    IF n = 0 THEN <<>>
    ELSE IF added[n].ok /\ added[n].call.properties = properties
         THEN Append(LeafAdds(properties, n - 1), AddedItem(n))
         ELSE LeafAdds(properties, n - 1)
\* part is a run of consecutive elements of whole
IsBlockOf(part, whole) ==
    \E off \in 0..(Len(whole) - Len(part)) :
        SubSeq(whole, off + 1, off + Len(part)) = part

\* every stream that matches is returned once for each time it was added,
\* and nothing else is returned
FindStreamsExact ==
    FoundStreams =>
        /\ \A i \in MatchingAdds(smcall.properties) :
            Occurrences(smret.value, AddedItem(i))
                = Cardinality({j \in MatchingAdds(smcall.properties) :
                                  AddedItem(j) = AddedItem(i)})
        /\ \A j \in 1..Len(smret.value) :
            \E i \in MatchingAdds(smcall.properties) :
                AddedItem(i) = smret.value[j]
\* a value that no stream was added with, given for a key, empties the result
FindStreamsEmptyWithoutBranch ==
    FoundStreams =>
        ((\E k \in DOMAIN smcall.properties :
            \A i \in SuccessfulAdds :
                added[i].call.properties[k] # smcall.properties[k])
         => smret.value = <<>>)
\* the streams of one leaf are returned together, in the order of the calls
FindStreamsLeafOrder ==
    FoundStreams =>
        \A i \in MatchingAdds(smcall.properties) :
            IsBlockOf(LeafAdds(added[i].call.properties, Len(added)),
                      smret.value)

\* C14: find_streams returns the streams whose values equal the given ones
\* at every key given, once per insertion, nothing when a given value has
\* no branch, and the streams of one leaf in insertion order.
C14_FindStreamsReturnsMatches ==
    /\ FindStreamsExact
    /\ FindStreamsEmptyWithoutBranch
    /\ FindStreamsLeafOrder

C14_Witness ==
    /\ FoundStreams
    /\ DOMAIN smcall.properties = {"recurse"}
    /\ \E i, j \in MatchingAdds(smcall.properties) :
        /\ i < j
        /\ added[i].call.properties = added[j].call.properties
        /\ added[i].call.streamid # added[j].call.streamid
    /\ \E i \in MatchingAdds(smcall.properties) :
        Len(LeafAdds(added[i].call.properties, Len(added)))
            < Len(smret.value)


\* ------------------------------------------------------------------ C15
SelectedFrom == smcall.op = "find_selections"
\* the first level has a branch for True and none for the string "true",
\* and the call gives the string for the first key
TrueGivenAsString(given) ==
    /\ keylist[1] \in DOMAIN given
    /\ given[keylist[1]] = StrTrue
    /\ ~DictHas(basedict, StrTrue)
    /\ DictHas(basedict, PyTrue)
\* the dictionary with True in the place of the string "true"
WithBoolean(given) ==
    [k \in DOMAIN given |-> IF given[k] = StrTrue THEN PyTrue ELSE given[k]]
\* the values that the streams added below True have for the second key
SourcesBelowTrue ==
    {added[i].call.properties[keylist[2]] :
        i \in {j \in SuccessfulAdds :
                 added[j].call.properties[keylist[1]] = PyTrue}}

\* C15, as stated: find_streams given the string "true" for a key that has
\* a branch for True and none for the string returns the streams stored
\* below the branch of True.
C15_LookupFollowsBooleanBranch ==
    (FoundStreams /\ TrueGivenAsString(smcall.properties)) =>
        \A i \in MatchingAdds(WithBoolean(smcall.properties)) :
            \E j \in 1..Len(smret.value) : smret.value[j] = AddedItem(i)

\* C15, amended: find_streams looks every given value up as it is and
\* returns nothing for the string "true" that has no branch, also when True
\* has one; it is find_selections that follows the branch of True for the
\* string "true" that has no branch, and lists the values below it.
C15_OnlySelectionsCoerce ==
    /\ (FoundStreams /\ TrueGivenAsString(smcall.properties))
           => smret.value = <<>>
    /\ (SelectedFrom /\ TrueGivenAsString(smcall.selected)
            /\ DOMAIN smcall.selected = {keylist[1]})
           => /\ smret.kind = "value"
              /\ smret.value.requested = keylist[2]
              /\ smret.value.res.maxitems = Cardinality(SourcesBelowTrue)
              /\ \A j \in 1..Len(smret.value.res.items) :
                    smret.value.res.items[j].id \in SourcesBelowTrue

C15_Witness ==
    /\ SelectedFrom
    /\ TrueGivenAsString(smcall.selected)
    /\ smret.kind = "value"
    /\ Len(smret.value.res.items) >= 2


\* ------------------------------------------------------------------ C16
\* the call stops at a key that is not selected, every selected value
\* before it being valid
OpenDimension ==
    /\ SelectedFrom
    /\ SelectedLevel(basedict, 1, smcall.selected).kind = "open"
\* the values of the open dimension
OpenValues ==
    LET curr == SelectedLevel(basedict, 1, smcall.selected).curr
    IN  {curr[i].k : i \in 1..Len(curr)}
\* the string x is some characters, then term, then some characters
IsSubstring(term, x) ==
    \E pre \in 0..Len(x.v) :
        \E post \in 0..Len(x.v) :
            /\ pre + Len(term.v) + post = Len(x.v)
            /\ \A n \in 1..Len(term.v) : x.v[pre + n] = term.v[n]
\* a value that is listed for the term
HasTerm(x, term) == term = StrEmpty \/ (IsStr(x) /\ IsSubstring(term, x))
\* the values of S in increasing order
Sorted(S) ==
    CHOOSE seq \in [1..Cardinality(S) -> S] :
        \A i, j \in 1..Cardinality(S) : i < j => ValLt(seq[i], seq[j])
\* page n of seq, the pages being of size p
PageOf(seq, n, p) ==
    IF (n - 1) * p >= Len(seq) THEN <<>>
    ELSE SubSeq(seq, (n - 1) * p + 1,
                IF n * p < Len(seq) THEN n * p ELSE Len(seq))
ItemValues(items) == [j \in 1..Len(items) |-> items[j].id]

\* C16: a call of find_selections that reaches an open dimension returns
\* page pageno of the sorted list of the values that contain the term, so
\* that page 1 has as many items as there are such values, up to pagesize,
\* and the pages put together are that list with nothing skipped or
\* repeated.
C16_PagesPartitionSortedMatches ==
    OpenDimension =>
        /\ smret.kind = "value"
        /\ ItemValues(smret.value.res.items)
             = PageOf(Sorted({x \in OpenValues : HasTerm(x, smcall.term)}),
                      PyInt(smcall.pageno), smcall.pagesize)


\* ------------------------------------------------------------------ C17
\* the call returned a page of values
ReturnedPage ==
    /\ OpenDimension
    /\ smret.kind = "value"

\* C17: with a term, every item of every page is a value of the open
\* dimension that has the term as a substring; without a term the page is
\* cut from the list of all the values.
C17_ItemsContainTerm ==
    ReturnedPage =>
        /\ \A j \in 1..Len(smret.value.res.items) :
            LET item == smret.value.res.items[j] IN
               /\ item.id \in OpenValues
               /\ item.text = item.id
               /\ smcall.term # StrEmpty =>
                     (IsStr(item.id) /\ IsSubstring(smcall.term, item.id))
        /\ smcall.term = StrEmpty =>
              ItemValues(smret.value.res.items)
                  = PageOf(Sorted(OpenValues), PyInt(smcall.pageno),
                           smcall.pagesize)

C17_Witness ==
    /\ ReturnedPage
    /\ smcall.term = StrL
    /\ Len(smret.value.res.items) >= 1
    /\ \E x \in OpenValues : ~IsSubstring(smcall.term, x)


\* ------------------------------------------------------------------ C18
\* C18: the count returned with a page is the number of the values of the
\* open dimension that match the term, with a term as well as without.
C18_MaxitemsCountsMatches ==
    ReturnedPage =>
        smret.value.res.maxitems
            = Cardinality({x \in OpenValues : HasTerm(x, smcall.term)})

\* ------------------------------------------------------------------ C19
\* the values that have a branch at the first level: those that a call of
\* add_stream gave for the first key
FirstLevelValues ==
    {added[i].call.properties[keylist[1]] :
        i \in {j \in 1..Len(added) :
                 keylist[1] \in DOMAIN added[j].call.properties}}
\* the values that have a branch at the second level below first
SecondLevelValues(first) ==
    {added[i].call.properties[keylist[2]] :
        i \in {j \in SuccessfulAdds :
                 added[j].call.properties[keylist[1]] = first}}
\* val, or the boolean for it when it is a boolean string without a branch
AsBoolean(branches, val) ==
    IF val \in branches THEN val
    ELSE IF val = StrTrue THEN PyTrue
    ELSE IF val = StrFalse THEN PyFalse
    ELSE val
\* a value selected before the first key that is not selected has no branch
InvalidSelection(selected) ==
    /\ keylist[1] \in DOMAIN selected
    /\ LET first == AsBoolean(FirstLevelValues, selected[keylist[1]]) IN
          \/ first \notin FirstLevelValues
          \/ /\ keylist[2] \in DOMAIN selected
             /\ AsBoolean(SecondLevelValues(first), selected[keylist[2]])
                    \notin SecondLevelValues(first)
\* every key of the schema is selected
FullSelection(selected) ==
    \A i \in 1..Len(keylist) : keylist[i] \in DOMAIN selected

\* C19: find_selections returns None when a selected value before the
\* first open dimension has no branch, the boolean for a boolean string
\* having been tried, and returns the pair of None and the empty list, not
\* the streams of the leaf, when every key is selected and valid.
C19_InvalidOrFullSelection ==
    SelectedFrom =>
        /\ InvalidSelection(smcall.selected) => smret = ReturnNone
        /\ (FullSelection(smcall.selected)
               /\ ~InvalidSelection(smcall.selected))
             => smret = ReturnValue([requested |-> "None",
                                     res |-> [kind |-> "list"]])

C19_Witness ==
    /\ SelectedFrom
    /\ keylist[1] \in DOMAIN smcall.selected
    /\ smcall.selected[keylist[1]] = StrTrue
    /\ FirstLevelValues # {}
    /\ PyTrue \notin FirstLevelValues
    /\ smret = ReturnNone

\* ------------------------------------------------------------------ C20
\* the ids that some call of add_stream added
AddedIds == {added[i].call.streamid : i \in SuccessfulAdds}
\* all the elements of all the leaf lists of a hierarchy
AllLeafItems(dict) == find_streams_rec(EmptyDict, dict, 0, <<>>)
\* a call of add_stream whose properties lack a key returns None and
\* leaves the leaf lists and the reverse map as they were
FailedAddStep ==
    (/\ smcall'.op = "add_stream"
     /\ added' # added
     /\ ~HasAllKeys(smcall'.properties))
        => /\ smret' = ReturnNone
           /\ sm_streams' = sm_streams
           /\ AllLeafItems(basedict') = AllLeafItems(basedict)
\* an id that was only given to failed calls is unknown afterwards
FailedIdUnknown ==
    /\ DOMAIN sm_streams = AddedIds
    /\ \A j \in 1..Len(AllLeafItems(basedict)) :
          AllLeafItems(basedict)[j].id \in AddedIds
    /\ (smcall.op = "find_stream_properties"
           /\ smcall.streamid \notin AddedIds) => smret = ReturnNone
    /\ (FoundStreams /\ DOMAIN smcall.properties = {})
          => \A j \in 1..Len(smret.value) :
                smret.value[j].id \in AddedIds

\* C20: add_stream with properties that lack a key of the schema returns
\* None and adds the id neither to a leaf list nor to the reverse map, so
\* that find_stream_properties of the id is None and find_streams of the
\* empty dictionary does not have it.
C20_FailedAddAddsNothing ==
    /\ [][FailedAddStep]_vars
    /\ []FailedIdUnknown

C20_Witness ==
    /\ smcall.op = "find_stream_properties"
    /\ smret = ReturnNone
    /\ SuccessfulAdds # {}
    /\ \E i \in 1..Len(added) :
          /\ ~added[i].ok
          /\ added[i].call.streamid = smcall.streamid
          /\ keylist[1] \in DOMAIN added[i].call.properties


\* ------------------------------------------------------------------ C21
\* the last call of add_stream that added the stream streamid
LastAddOf(streamid) ==
    CHOOSE i \in SuccessfulAdds :
        /\ added[i].call.streamid = streamid
        /\ \A j \in SuccessfulAdds :
              added[j].call.streamid = streamid => j <= i

\* C21: find_stream_properties returns None for an id that no call added,
\* and for an added id the dictionary of the schema keys with the values
\* of the last call that added it.
C21_PropertiesOfLastAdd ==
    smcall.op = "find_stream_properties" =>
        IF smcall.streamid \notin AddedIds THEN smret = ReturnNone
        ELSE /\ smret.kind = "value"
             /\ DOMAIN smret.value = {keylist[i] : i \in 1..Len(keylist)}
             /\ \A k \in DOMAIN smret.value :
                   smret.value[k]
                       = added[LastAddOf(smcall.streamid)].call.properties[k]

C21_Witness ==
    /\ smcall.op = "find_stream_properties"
    /\ smret.kind = "value"
    /\ \E i, j \in SuccessfulAdds :
          /\ i < j
          /\ added[i].call.streamid = smcall.streamid
          /\ added[j].call.streamid = smcall.streamid
          /\ added[i].call.properties # added[j].call.properties


\* ===================================================================== Ampy
\* the names of the collections, and the view styles
AmpDns == Str(<<Ord.a, Ord.m, Ord.p, Ord.dash, Ord.d, Ord.n, Ord.s>>)
AmpIcmp == Str(<<Ord.a, Ord.m, Ord.p, Ord.dash, Ord.i, Ord.c, Ord.m, Ord.p>>)
AmpTcpping == Str(<<Ord.a, Ord.m, Ord.p, Ord.dash,
                    Ord.t, Ord.c, Ord.p, Ord.p, Ord.i, Ord.n, Ord.g>>)
ViewStyles == {"amp-latency", "amp-loss"}
ViewIds == {1, 2}

\* ------------------------------------------------------------- the cache
\* An entry is sticky, or it has some steps of the clock left; reading an
\* entry that slides gives it its whole time again.
Sticky == [policy |-> "sticky"]
SlideOnRead == [policy |-> "slide", left |-> CacheTicks]
FixedTTL == [policy |-> "fixed", left |-> CacheTicks]
ViewGroupsKey(view_id) == [what |-> "view-groups", id |-> view_id]
MatrixViewKey(cachelabel) == [what |-> "matrix-view", label |-> cachelabel]
CachePut(c, key, value, expiry) ==
    [k \in DOMAIN c \cup {key} |->
        IF k = key THEN [value |-> value, expiry |-> expiry] ELSE c[k]]
\* the cache after a read of key
CacheRead(c, key) ==
    IF key \in DOMAIN c /\ c[key].expiry.policy = "slide"
    THEN [c EXCEPT ![key].expiry = SlideOnRead]
    ELSE c
store_view_groups(c, view_id, groups) ==
    CachePut(c, ViewGroupsKey(view_id), groups, SlideOnRead)
\* a time to live of 0 is no expiry
store_matrix_view(c, cachelabel, viewid, ttl) ==
    CachePut(c, MatrixViewKey(cachelabel), viewid,
             IF ttl = 0 THEN Sticky ELSE FixedTTL)

\* a step of the clock: the entries that expire lose a step, and those
\* that have none left are gone; the last call is then no call of Ampy
Tick ==
    /\ \E k \in DOMAIN cache : cache[k].expiry.policy # "sticky"
    /\ cache' =
         LET live == {k \in DOMAIN cache :
                        \/ cache[k].expiry.policy = "sticky"
                        \/ cache[k].expiry.left > 1}
         IN  [k \in live |->
                IF cache[k].expiry.policy = "sticky" THEN cache[k]
                ELSE [cache[k] EXCEPT !.expiry.left = @ - 1]]
    /\ acall' = [op |-> "tick"]
    /\ atrace' = <<>>
    /\ aret' = NotReturned
    /\ UNCHANGED <<started, savedcoldata>>
    /\ UNCHANGED <<nvars, svars, pvars>>

\* -------------------------------------------------------- the view store
\* a group of a view: its id and its description
Group(gid, descr) == [gid |-> gid, descr |-> descr]
\* The views of the view store, as dictionaries from the collection to
\* its groups: a view of two collections whose keys and groups are in no
\* sorted order, a view with the same id and another style, and a view of
\* one collection with two groups.  Any other view has no groups.
ViewStore(viewstyle, view_id) ==
    IF viewstyle = "amp-latency" /\ view_id = 1
    THEN <<[k |-> AmpIcmp, v |-> <<Group(1, StrLa), Group(2, StrA)>>],
           [k |-> AmpDns, v |-> <<Group(3, StrAl)>>]>>
    ELSE IF viewstyle = "amp-loss" /\ view_id = 1
    THEN <<[k |-> AmpIcmp, v |-> <<Group(4, StrA)>>]>>
    ELSE IF viewstyle = "amp-latency" /\ view_id = 2
    THEN <<[k |-> AmpIcmp, v |-> <<Group(5, StrA), Group(6, StrAl)>>]>>
    ELSE <<>>
\* what viewmanager.get_view_groups answers: the groups, or None when the
\* database fails
ViewGroupsAnswers(viewstyle, view_id) ==
    {ReturnNone, ReturnValue(ViewStore(viewstyle, view_id))}

\* a call made to one of the objects that Ampy uses, and its answer
Called(fn, args, answer) == [fn |-> fn, args |-> args, answer |-> answer]

\* _view_to_groups storing whatever the view store answers with
ViewToGroups_StoresEmpty(c, viewstyle, view_id, answer) ==
    LET key == ViewGroupsKey(view_id)
        search == Called("search_view_groups", <<view_id>>,
                         IF key \in DOMAIN c THEN ReturnValue(c[key].value)
                         ELSE ReturnNone)
        fetch == Called("get_view_groups", <<viewstyle, view_id>>, answer)
    IN  IF key \in DOMAIN c
        THEN [ret |-> ReturnValue(c[key].value),
              cache |-> store_view_groups(CacheRead(c, key), view_id,
                                          c[key].value),
              trace |-> <<search, Called("store_view_groups",
                                         <<view_id, c[key].value>>,
                                         ReturnNone)>>]
        ELSE IF answer = ReturnNone
        THEN [ret |-> ReturnNone, cache |-> c, trace |-> <<search, fetch>>]
        ELSE [ret |-> answer,
              cache |-> store_view_groups(c, view_id, answer.value),
              trace |-> <<search, fetch,
                          Called("store_view_groups",
                                 <<view_id, answer.value>>, ReturnNone)>>]

\* _view_to_groups on the cache c, the view store answering with answer:
\* what it returns, the cache afterwards and the calls it made
ViewToGroups(c, viewstyle, view_id, answer) ==
    LET key == ViewGroupsKey(view_id)
        search == Called("search_view_groups", <<view_id>>,
                         IF key \in DOMAIN c THEN ReturnValue(c[key].value)
                         ELSE ReturnNone)
        fetch == Called("get_view_groups", <<viewstyle, view_id>>, answer)
    IN  IF key \in DOMAIN c
        THEN [ret |-> ReturnValue(c[key].value),
              cache |-> store_view_groups(CacheRead(c, key), view_id,
                                          c[key].value),
              trace |-> <<search, Called("store_view_groups",
                                         <<view_id, c[key].value>>,
                                         ReturnNone)>>]
        ELSE IF answer = ReturnNone
        THEN [ret |-> ReturnNone, cache |-> c, trace |-> <<search, fetch>>]
        ELSE IF Len(answer.value) > 0
        THEN [ret |-> answer,
              cache |-> store_view_groups(c, view_id, answer.value),
              trace |-> <<search, fetch,
                          Called("store_view_groups",
                                 <<view_id, answer.value>>, ReturnNone)>>]
        ELSE [ret |-> answer, cache |-> c, trace |-> <<search, fetch>>]

view_to_groups ==
    /\ \E viewstyle \in ViewStyles, view_id \in ViewIds :
        \E answer \in ViewGroupsAnswers(viewstyle, view_id) :
            LET done == ViewToGroups(cache, viewstyle, view_id, answer) IN
            /\ acall' = [op |-> "_view_to_groups", viewstyle |-> viewstyle,
                         view_id |-> view_id]
            /\ cache' = done.cache
            /\ atrace' = done.trace
            /\ aret' = done.ret
    /\ UNCHANGED <<started, savedcoldata>>
    /\ UNCHANGED <<nvars, svars, pvars>>

\* ------------------------------------------------------------------ start
\* what request_collections of a new connection answers: None, or the
\* collections of the exporter
CollectionsAnswers ==
    { ReturnNone,
      ReturnValue(<<>>),
      ReturnValue(<<[module |-> Str(<<Ord.a, Ord.m, Ord.p>>),
                     modsubtype |-> Str(<<Ord.d, Ord.n, Ord.s>>), id |-> 1]>>),
      ReturnValue(<<[module |-> Str(<<Ord.a, Ord.m, Ord.p>>),
                     modsubtype |-> Str(<<Ord.d, Ord.n, Ord.s>>), id |-> 1],
                    [module |-> Str(<<Ord.a, Ord.m, Ord.p>>),
                     modsubtype |-> Str(<<Ord.i, Ord.c, Ord.m, Ord.p>>),
                     id |-> 2]>>),
      ReturnValue(<<[module |-> Str(<<Ord.a, Ord.m, Ord.p>>),
                     modsubtype |-> Str(<<Ord.t, Ord.c, Ord.p, Ord.p,
                                          Ord.i, Ord.n, Ord.g>>),
                     id |-> 3]>>) }
\* col['module'] + "-" + col['modsubtype']
CollectionName(col) == Str(col.module.v \o <<Ord.dash>> \o col.modsubtype.v)
\* the loop of _query_collections over the collections from the n-th on
RECURSIVE SaveCollections(_, _, _)
SaveCollections(saved, collections, n) ==
    IF n > Len(collections) THEN saved
    ELSE SaveCollections(
             [name \in DOMAIN saved \cup {CollectionName(collections[n])} |->
                 IF name = CollectionName(collections[n])
                 THEN collections[n].id ELSE saved[name]],
             collections, n + 1)

\* start answering from what was saved without looking at self.started
start_QueriesAgain ==
    /\ \E answer \in CollectionsAnswers :
        /\ atrace' = <<Called("request_collections", <<>>, answer)>>
        /\ IF answer = ReturnNone
           THEN /\ aret' = ReturnNone
                /\ UNCHANGED <<started, savedcoldata>>
           ELSE /\ savedcoldata' = SaveCollections(savedcoldata,
                                                   answer.value, 1)
                /\ started' = TRUE
                /\ aret' = ReturnValue(Cardinality(DOMAIN savedcoldata'))
    /\ acall' = [op |-> "start"]
    /\ UNCHANGED cache
    /\ UNCHANGED <<nvars, svars, pvars>>

start ==
    /\ IF started
       THEN /\ atrace' = <<>>
            /\ aret' = ReturnValue(Cardinality(DOMAIN savedcoldata))
            /\ UNCHANGED <<started, savedcoldata>>
       ELSE \E answer \in CollectionsAnswers :
            /\ atrace' = <<Called("request_collections", <<>>, answer)>>
            /\ IF answer = ReturnNone
               THEN /\ aret' = ReturnNone
                    /\ UNCHANGED <<started, savedcoldata>>
               ELSE /\ savedcoldata' = SaveCollections(savedcoldata,
                                                       answer.value, 1)
                    /\ started' = TRUE
                    /\ aret' = ReturnValue(Cardinality(DOMAIN savedcoldata'))
    /\ acall' = [op |-> "start"]
    /\ UNCHANGED cache
    /\ UNCHANGED <<nvars, svars, pvars>>

\* ------------------------------------------------- data of the groups
\* the failures of the collection modules that a call may meet: the
\* collections whose update_streams fails, the groups whose labels cannot
\* be found and the collections whose request for data fails
NoFailures == [update |-> {}, labels |-> {}, request |-> {}]
Failures ==
    {NoFailures}
    \cup {[NoFailures EXCEPT !.update = {k}] : k \in {AmpIcmp, AmpDns}}
    \cup {[NoFailures EXCEPT !.labels = {g}] : g \in {1, 3, 5}}
    \cup {[NoFailures EXCEPT !.request = {k}] : k \in {AmpIcmp, AmpDns}}

\* _getcol: the module of a collection that the exporter has, its streams
\* updated
GetCol(saved, collection, fails) ==
    IF collection \in DOMAIN saved /\ collection \notin fails.update
    THEN ReturnValue(collection)
    ELSE ReturnNone
\* the labels of a group, None when they cannot be found: the first group
\* has a label for each family
Label(gid, family) == [group |-> gid, family |-> family]
group_to_labels(gid, fails) ==
    IF gid \in fails.labels THEN ReturnNone
    ELSE IF gid = 1 THEN ReturnValue(<<Label(1, "ipv4"), Label(1, "ipv6")>>)
    ELSE ReturnValue(<<Label(gid, "ipv4")>>)
\* the data that a collection answers a request for labels with
DataOf(colname, labels) ==
    [l \in {labels[n] : n \in 1..Len(labels)} |->
        <<[collection |-> colname, label |-> l]>>]
\* dict.update
DictUpdate(d, other) ==
    [k \in DOMAIN d \cup DOMAIN other |->
        IF k \in DOMAIN other THEN other[k] ELSE d[k]]

RECURSIVE AllLabels(_, _, _, _, _, _)
\* the loop keeping the labels of the last group only
AllLabels_LastGroupOnly(colname, vgs, n, alllabels, trace, fails) ==
    IF n > Len(vgs) THEN [labels |-> alllabels, trace |-> trace]
    ELSE LET grouplabels == group_to_labels(vgs[n].gid, fails)
             call == Called("group_to_labels",
                            [col |-> colname, gid |-> vgs[n].gid,
                             descr |-> vgs[n].descr], grouplabels)
         IN  IF grouplabels = ReturnNone
             THEN AllLabels(colname, vgs, n + 1, alllabels,
                            Append(trace, call), fails)
             ELSE AllLabels(colname, vgs, n + 1, grouplabels.value,
                            Append(trace, call), fails)

\* the loop over the groups of one collection, from the n-th on: the
\* labels found and the calls made
AllLabels(colname, vgs, n, alllabels, trace, fails) ==
    IF n > Len(vgs) THEN [labels |-> alllabels, trace |-> trace]
    ELSE LET grouplabels == group_to_labels(vgs[n].gid, fails)
             call == Called("group_to_labels",
                            [col |-> colname, gid |-> vgs[n].gid,
                             descr |-> vgs[n].descr], grouplabels)
         IN  IF grouplabels = ReturnNone
             THEN AllLabels(colname, vgs, n + 1, alllabels,
                            Append(trace, call), fails)
             ELSE AllLabels(colname, vgs, n + 1,
                            alllabels \o grouplabels.value,
                            Append(trace, call), fails)

\* the loop of get_recent_data over the collections of the view
RECURSIVE RecentLoop(_, _, _, _, _, _, _)
RecentLoop(saved, viewgroups, n, recentdata, timeouts, trace, fails) ==
    IF n > Len(viewgroups)
    THEN [ret |-> ReturnValue([data |-> recentdata, timeouts |-> timeouts]),
          trace |-> trace]
    ELSE LET colname == viewgroups[n].k
             col == GetCol(saved, colname, fails)
             getcol == Called("_getcol", [col |-> colname], col)
             found == AllLabels(colname, viewgroups[n].v, 1, <<>>, <<>>,
                                fails)
             result == IF colname \in fails.request THEN ReturnNone
                       ELSE ReturnValue([data |-> DataOf(colname,
                                                         found.labels),
                                         timeouts |-> <<>>])
             request == Called("get_collection_recent",
                               [col |-> colname, labels |-> found.labels],
                               result)
             calls == (trace \o <<getcol>>) \o (found.trace \o <<request>>)
         IN  IF col = ReturnNone
             THEN [ret |-> ReturnNone, trace |-> Append(trace, getcol)]
             ELSE IF result # ReturnNone
             THEN RecentLoop(saved, viewgroups, n + 1,
                             DictUpdate(recentdata, result.value.data),
                             timeouts \o result.value.timeouts, calls, fails)
             ELSE RecentLoop(saved, viewgroups, n + 1, recentdata, timeouts,
                             calls, fails)

get_recent_data ==
    /\ \E viewstyle \in ViewStyles, view_id \in ViewIds, fails \in Failures :
        \E answer \in ViewGroupsAnswers(viewstyle, view_id) :
            LET groups == ViewToGroups(cache, viewstyle, view_id, answer)
                done == RecentLoop(savedcoldata, groups.ret.value, 1,
                                   <<>>, <<>>, groups.trace, fails)
            IN  /\ acall' = [op |-> "get_recent_data",
                             viewstyle |-> viewstyle, view_id |-> view_id]
                /\ cache' = groups.cache
                /\ IF groups.ret = ReturnNone
                   THEN /\ atrace' = groups.trace
                        /\ aret' = ReturnNone
                   ELSE /\ atrace' = done.trace
                        /\ aret' = done.ret
    /\ UNCHANGED <<started, savedcoldata>>
    /\ UNCHANGED <<nvars, svars, pvars>>

\* the descriptions that a fetch of raw data returns with the data
RECURSIVE Descriptions(_, _, _, _)
Descriptions(description, colname, vgs, n) ==
    IF n > Len(vgs) THEN description
    ELSE Descriptions(
            DictUpdate(description,
                       [g \in {vgs[n].gid} |->
                           [descr |-> vgs[n].descr, collection |-> colname]]),
            colname, vgs, n + 1)

\* the loop of get_historic_data over the collections of the view
RECURSIVE HistoricLoop(_, _, _, _, _, _, _, _)
HistoricLoop(saved, viewgroups, n, description, history, trace, fails, binsize) ==
    IF n > Len(viewgroups)
    THEN [ret |-> IF binsize < 0
                  THEN ReturnValue([description |-> description,
                                    history |-> history])
                  ELSE ReturnValue([history |-> history]),
          trace |-> trace]
    ELSE LET colname == viewgroups[n].k
             col == GetCol(saved, colname, fails)
             getcol == Called("_getcol", [col |-> colname], col)
             found == AllLabels(colname, viewgroups[n].v, 1, <<>>, <<>>,
                                fails)
             colhist == IF colname \in fails.request THEN ReturnNone
                        ELSE ReturnValue(DataOf(colname, found.labels))
             request == Called("get_collection_history",
                               [col |-> colname, labels |-> found.labels],
                               colhist)
             calls == (trace \o <<getcol>>) \o (found.trace \o <<request>>)
         IN  IF col = ReturnNone
             THEN [ret |-> ReturnNone, trace |-> Append(trace, getcol)]
             ELSE IF colhist = ReturnNone
             THEN [ret |-> ReturnNone, trace |-> calls]
             ELSE HistoricLoop(saved, viewgroups, n + 1,
                               IF binsize < 0
                               THEN Descriptions(description, colname,
                                                 viewgroups[n].v, 1)
                               ELSE description,
                               DictUpdate(history, colhist.value), calls,
                               fails, binsize)

get_historic_data ==
    /\ \E viewstyle \in ViewStyles, view_id \in ViewIds, fails \in Failures,
          binsize \in {300, -1} :
        /\ binsize < 0 => fails = NoFailures
        /\ \E answer \in ViewGroupsAnswers(viewstyle, view_id) :
            LET groups == ViewToGroups(cache, viewstyle, view_id, answer)
                done == HistoricLoop(savedcoldata, groups.ret.value, 1,
                                     <<>>, <<>>, groups.trace, fails,
                                     binsize)
            IN  /\ acall' = [op |-> "get_historic_data",
                             viewstyle |-> viewstyle, view_id |-> view_id,
                             binsize |-> binsize]
                /\ cache' = groups.cache
                /\ IF groups.ret = ReturnNone
                   THEN /\ atrace' = groups.trace
                        /\ aret' = ReturnNone
                   ELSE /\ atrace' = done.trace
                        /\ aret' = done.ret
    /\ UNCHANGED <<started, savedcoldata>>
    /\ UNCHANGED <<nvars, svars, pvars>>

\* ------------------------------------------------------------ the legend
\* list.sort of the names of the collections
SortedColkeys(colkeys) ==
    LET rank(i) == Cardinality({j \in 1..Len(colkeys) :
                                  ValLt(colkeys[j], colkeys[i])})
    IN  [r \in 1..Len(colkeys) |->
            colkeys[CHOOSE i \in 1..Len(colkeys) : rank(i) = r - 1]]

\* the groups of a collection sorted by their ids
SortedColgroups_ById(colgroups) ==
    LET rank(i) == Cardinality({j \in 1..Len(colgroups) :
                                  \/ colgroups[j].gid < colgroups[i].gid
                                  \/ /\ colgroups[j].gid = colgroups[i].gid
                                     /\ j < i})
    IN  [r \in 1..Len(colgroups) |->
            colgroups[CHOOSE i \in 1..Len(colgroups) : rank(i) = r - 1]]

\* sorted(colgroups, key=operator.itemgetter(1)): by the description, the
\* groups of one description in the order they had
SortedColgroups(colgroups) ==
    LET rank(i) == Cardinality({j \in 1..Len(colgroups) :
                                  \/ ValLt(colgroups[j].descr,
                                           colgroups[i].descr)
                                  \/ /\ colgroups[j].descr
                                          = colgroups[i].descr
                                     /\ j < i})
    IN  [r \in 1..Len(colgroups) |->
            colgroups[CHOOSE i \in 1..Len(colgroups) : rank(i) = r - 1]]

\* the loop of get_view_legend over the sorted groups of one collection,
\* _add_legend_item adding each
RECURSIVE LegendItems(_, _, _, _, _, _, _)
\* the loop numbering the lines of every group from zero
LegendItems_NumbersFromZero(colname, colgroups, n, legend, nextlineid, trace, fails) ==
    IF n > Len(colgroups)
    THEN [legend |-> legend, nextlineid |-> nextlineid, trace |-> trace]
    ELSE LET grouplabels == group_to_labels(colgroups[n].gid, fails)
             call == Called("group_to_labels",
                            [col |-> colname, gid |-> colgroups[n].gid,
                             descr |-> colgroups[n].descr], grouplabels)
         IN  IF grouplabels = ReturnNone
             THEN LegendItems(colname, colgroups, n + 1, legend, nextlineid,
                              Append(trace, call), fails)
             ELSE LegendItems(colname, colgroups, n + 1,
                     Append(legend,
                            [group_id |-> colgroups[n].gid,
                             label |-> colgroups[n].descr,
                             lines |->
                                [i \in 1..Len(grouplabels.value) |->
                                    [labelstring |-> grouplabels.value[i],
                                     lineid |-> i - 1]],
                             collection |-> colname]),
                     nextlineid + Len(grouplabels.value),
                     Append(trace, call), fails)

LegendItems(colname, colgroups, n, legend, nextlineid, trace, fails) ==
    IF n > Len(colgroups)
    THEN [legend |-> legend, nextlineid |-> nextlineid, trace |-> trace]
    ELSE LET grouplabels == group_to_labels(colgroups[n].gid, fails)
             call == Called("group_to_labels",
                            [col |-> colname, gid |-> colgroups[n].gid,
                             descr |-> colgroups[n].descr], grouplabels)
         IN  IF grouplabels = ReturnNone
             THEN LegendItems(colname, colgroups, n + 1, legend, nextlineid,
                              Append(trace, call), fails)
             ELSE LegendItems(colname, colgroups, n + 1,
                     Append(legend,
                            [group_id |-> colgroups[n].gid,
                             label |-> colgroups[n].descr,
                             lines |->
                                [i \in 1..Len(grouplabels.value) |->
                                    [labelstring |-> grouplabels.value[i],
                                     lineid |-> nextlineid + i - 1]],
                             collection |-> colname]),
                     nextlineid + Len(grouplabels.value),
                     Append(trace, call), fails)

\* the loop of get_view_legend over the sorted names of the collections
RECURSIVE LegendLoop(_, _, _, _, _, _, _, _)
LegendLoop(saved, viewgroups, colkeys, n, legend, nextlineid, trace, fails) ==
    IF n > Len(colkeys) THEN [ret |-> ReturnValue(legend), trace |-> trace]
    ELSE LET colname == colkeys[n]
             col == GetCol(saved, colname, fails)
             getcol == Called("_getcol", [col |-> colname], col)
             items == LegendItems(colname,
                                  SortedColgroups(DictGet(viewgroups,
                                                          colname)),
                                  1, legend, nextlineid,
                                  Append(trace, getcol), fails)
         IN  IF col = ReturnNone
             THEN [ret |-> ReturnNone, trace |-> Append(trace, getcol)]
             ELSE LegendLoop(saved, viewgroups, colkeys, n + 1,
                             items.legend, items.nextlineid, items.trace,
                             fails)

get_view_legend ==
    /\ \E viewstyle \in ViewStyles, view_id \in ViewIds,
          fails \in {f \in Failures : f.request = {}} :
        \E answer \in ViewGroupsAnswers(viewstyle, view_id) :
            LET groups == ViewToGroups(cache, viewstyle, view_id, answer)
                done == LegendLoop(savedcoldata, groups.ret.value,
                                   SortedColkeys(DictKeys(groups.ret.value)),
                                   1, <<>>, 0, groups.trace, fails)
            IN  /\ acall' = [op |-> "get_view_legend",
                             viewstyle |-> viewstyle, view_id |-> view_id]
                /\ cache' = groups.cache
                /\ IF groups.ret = ReturnNone
                   THEN /\ atrace' = groups.trace
                        /\ aret' = ReturnNone
                   ELSE /\ atrace' = done.trace
                        /\ aret' = done.ret
    /\ UNCHANGED <<started, savedcoldata>>
    /\ UNCHANGED <<nvars, svars, pvars>>

\* --------------------------------------------------- the tab of a graph
\* the name that a view style is written with
StyleName(viewstyle) ==
    IF viewstyle = "amp-latency"
    THEN Str(<<Ord.a, Ord.m, Ord.p, Ord.dash,
               Ord.l, Ord.a, Ord.t, Ord.e, Ord.n, Ord.c, Ord.y>>)
    ELSE Str(<<Ord.a, Ord.m, Ord.p, Ord.dash, Ord.l, Ord.o, Ord.s, Ord.s>>)
\* what the collection of the tab makes of the groups of the view: the
\* groups whose rule it cannot translate, and the groups whose translated
\* rule matches some stream
TabOutcomes ==
    { [untranslated |-> {}, streams |-> {1, 2, 3, 4, 5, 6}],
      [untranslated |-> {}, streams |-> {}],
      [untranslated |-> {2, 3, 6}, streams |-> {1, 5}],
      [untranslated |-> {1, 2, 3, 4, 5, 6}, streams |-> {}],
      [untranslated |-> {3}, streams |-> {1, 2}] }
\* the labels of the translated rule of a group, with their streams
TabLabels(gid, outcome) ==
    <<[labelstring |-> Label(gid, "ipv4"), streams |-> <<>>],
      [labelstring |-> Label(gid, "ipv6"),
       streams |-> IF gid \in outcome.streams THEN <<gid>> ELSE <<>>]>>

\* the loop of test_graphtab_view over the groups of one collection, from
\* the n-th on: the counts, whether it returned False, the calls made
RECURSIVE TabGroups(_, _, _, _, _, _, _, _)
TabGroups(tabcol, vgs, n, totalgroups, matched, trace, maxgroups, outcome) ==
    IF n > Len(vgs)
    THEN [returned |-> FALSE, totalgroups |-> totalgroups,
          matched |-> matched, trace |-> trace]
    ELSE IF totalgroups + 1 > maxgroups
    THEN [returned |-> TRUE, totalgroups |-> totalgroups + 1,
          matched |-> matched, trace |-> trace]
    ELSE LET gid == vgs[n].gid
             tabrule == IF gid \in outcome.untranslated THEN ReturnNone
                        ELSE ReturnValue(vgs[n].descr)
             translate == Called("translate_group",
                                 [col |-> tabcol, gid |-> gid], tabrule)
             labels == TabLabels(gid, outcome)
             tolabels == Called("group_to_labels",
                                [col |-> tabcol, gid |-> gid],
                                ReturnValue(labels))
         IN  IF tabrule = ReturnNone
             THEN TabGroups(tabcol, vgs, n + 1, totalgroups + 1, matched,
                            Append(trace, translate), maxgroups, outcome)
             ELSE TabGroups(tabcol, vgs, n + 1, totalgroups + 1,
                            IF \E i \in 1..Len(labels) :
                                  Len(labels[i].streams) > 0
                            THEN matched + 1 ELSE matched,
                            trace \o <<translate, tolabels>>, maxgroups,
                            outcome)

\* the loop of test_graphtab_view over the collections of the view, and
\* the test that follows it
RECURSIVE TabLoop(_, _, _, _, _, _, _, _, _, _)
TabLoop(saved, tabcol, groups, n, totalgroups, matched, trace, maxgroups, outcome, fails) ==
    IF n > Len(groups)
    THEN [ret |-> ReturnValue(matched = Len(groups)), trace |-> trace]
    ELSE LET colname == groups[n].k
             col == GetCol(saved, colname, fails)
             getcol == Called("_getcol", [col |-> colname], col)
             done == TabGroups(tabcol, groups[n].v, 1, totalgroups, matched,
                               Append(trace, getcol), maxgroups, outcome)
         IN  IF col = ReturnNone
             THEN [ret |-> ReturnNone, trace |-> Append(trace, getcol)]
             ELSE IF done.returned
             THEN [ret |-> ReturnValue(FALSE), trace |-> done.trace]
             ELSE TabLoop(saved, tabcol, groups, n + 1, done.totalgroups,
                          done.matched, done.trace, maxgroups, outcome,
                          fails)

\* the calls of test_graphtab_view: the views of one style with every
\* outcome of the translation, and otherwise one thing changed at a time,
\* the maximum of groups of the collection of the tab among them
UsualTabCall ==
    [viewstyle |-> "amp-latency", view_id |-> 1, tabcollection |-> AmpDns,
     maxgroups |-> 4, outcome |-> [untranslated |-> {},
                                   streams |-> {1, 2, 3, 4, 5, 6}],
     fails |-> NoFailures]
TabCalls ==
    {[UsualTabCall EXCEPT !.view_id = v, !.outcome = o] :
        v \in ViewIds, o \in TabOutcomes}
    \cup {[UsualTabCall EXCEPT !.tabcollection = StyleName("amp-latency")],
          [UsualTabCall EXCEPT !.maxgroups = 1]}
    \cup {[UsualTabCall EXCEPT !.viewstyle = w] : w \in ViewStyles}
    \cup {[UsualTabCall EXCEPT !.fails.update = {k}] :
              k \in {AmpIcmp, AmpDns}}

test_graphtab_view ==
    /\ \E call \in TabCalls :
        \E answer \in ViewGroupsAnswers(call.viewstyle, call.view_id) :
            LET viewstyle == call.viewstyle
                view_id == call.view_id
                tabcollection == call.tabcollection
                maxgroups == call.maxgroups
                outcome == call.outcome
                fails == call.fails
                groups == ViewToGroups(cache, viewstyle, view_id, answer)
                tabcol == GetCol(savedcoldata, tabcollection, fails)
                gettab == Called("_getcol", [col |-> tabcollection], tabcol)
                getmax == Called("get_maximum_view_groups",
                                 [col |-> tabcollection],
                                 ReturnValue(maxgroups))
                done == TabLoop(savedcoldata, tabcollection,
                                groups.ret.value, 1, 0, 0,
                                groups.trace \o <<gettab, getmax>>,
                                maxgroups, outcome, fails)
            IN  /\ acall' = [op |-> "test_graphtab_view",
                             viewstyle |-> viewstyle, view_id |-> view_id,
                             tabcollection |-> tabcollection]
                /\ IF StyleName(viewstyle) = tabcollection
                   THEN /\ atrace' = <<>>
                        /\ aret' = ReturnValue(TRUE)
                        /\ cache' = cache
                   ELSE /\ cache' = groups.cache
                        /\ IF groups.ret = ReturnNone
                           THEN /\ atrace' = groups.trace
                                /\ aret' = ReturnNone
                           ELSE IF tabcol = ReturnNone
                           THEN /\ atrace' = Append(groups.trace, gettab)
                                /\ aret' = ReturnNone
                           ELSE /\ atrace' = done.trace
                                /\ aret' = done.ret
    /\ UNCHANGED <<started, savedcoldata>>
    /\ UNCHANGED <<nvars, svars, pvars>>

\* ------------------------------------------------- the cells of a matrix
\* the text of an option that is a number, as its decimal digits; another
\* text is a word
Digits(ds) == [digits |-> ds]
\* str() of a natural number, as its digits
RECURSIVE PyStr(_)
PyStr(n) == IF n < 10 THEN <<n>> ELSE Append(PyStr(n \div 10), n % 10)

portpreferences == <<443, 53, 80>>
default_packet_sizes == <<Digits(<<6, 4>>), Digits(<<6, 0>>)>>
\* the id that the view store gives the view of a new cell
NewViewId == 7
\* the selections that find_selections answers with: the name of the next
\* property and its options
Selections2(name, items) == ReturnValue([req |-> name, items |-> items])
\* what the objects that update_matrix_groups uses answer for a cell with
\* streams: the two answers of find_selections, the numbers of streams of
\* the two families, the group made of the properties and the view that
\* the view store adds the group to
UsualCell ==
    [ports |-> Selections2("port", <<Digits(<<8, 0>>), Digits(<<4, 4, 3>>)>>),
     sizes |-> Selections2("packet_size",
                           <<Digits(<<8, 4>>), Digits(<<6, 4>>)>>),
     ipv4 |-> 1, ipv6 |-> 0, cellgroup |-> TRUE,
     viewid |-> ReturnValue(NewViewId)]
MatrixCells ==
    { UsualCell,
      [UsualCell EXCEPT !.viewid = ReturnNone],
      [UsualCell EXCEPT !.ports = ReturnNone],
      [UsualCell EXCEPT !.ports = Selections2("destination", <<>>)],
      [UsualCell EXCEPT !.ports = Selections2("port", <<>>)],
      [UsualCell EXCEPT !.ports =
          Selections2("port", <<Digits(<<8, 0, 8, 0>>),
                                Digits(<<2, 2>>)>>)],
      [UsualCell EXCEPT !.sizes = ReturnNone],
      [UsualCell EXCEPT !.sizes = Selections2("packet_size", <<>>)],
      [UsualCell EXCEPT !.sizes =
          Selections2("packet_size", <<[word |-> "random"]>>)],
      [UsualCell EXCEPT !.sizes =
          Selections2("packet_size", <<Digits(<<8, 4>>),
                                       Digits(<<7, 2>>)>>)],
      [UsualCell EXCEPT !.ipv4 = 0],
      [UsualCell EXCEPT !.ipv6 = 1],
      [UsualCell EXCEPT !.cellgroup = FALSE] }
\* the loops over portpreferences and the ports found, from preference p
\* and found port i on
RECURSIVE PortLoop(_, _, _, _, _)
PortLoop(items, p, i, port, minport) ==
    IF p > Len(portpreferences) THEN [port |-> port, minport |-> minport]
    ELSE IF i > Len(items) THEN PortLoop(items, p + 1, 1, port, minport)
    ELSE IF portpreferences[p] = PyInt(items[i].digits)
    THEN PortLoop(items, p + 1, 1, ReturnValue(portpreferences[p]), minport)
    ELSE PortLoop(items, p, i + 1, port,
                  IF \/ minport = ReturnNone
                     \/ PyInt(items[i].digits) < minport.value
                  THEN ReturnValue(PyInt(items[i].digits))
                  ELSE minport)
\* the port of the cell
ChosenPort(items) ==
    LET done == PortLoop(items, 1, 1, ReturnNone, ReturnNone)
    IN  IF done.port # ReturnNone THEN done.port.value
        ELSE done.minport.value

\* the loop over the sizes found that looks for the smallest
RECURSIVE MinSize(_, _, _)
MinSize(items, i, minsize) ==
    IF i > Len(items) THEN minsize
    ELSE IF "digits" \notin DOMAIN items[i]
    THEN MinSize(items, i + 1, minsize)
    ELSE IF PyInt(items[i].digits) < minsize \/ minsize = 0
    THEN MinSize(items, i + 1, PyInt(items[i].digits))
    ELSE MinSize(items, i + 1, minsize)
\* the packet size of the cell, None when there is no size to use
ChosenSize(items) ==
    IF \E d \in 1..Len(default_packet_sizes) :
          \E i \in 1..Len(items) : items[i] = default_packet_sizes[d]
    THEN ReturnValue(default_packet_sizes[
            CHOOSE d \in 1..Len(default_packet_sizes) :
                /\ \E i \in 1..Len(items) : items[i] = default_packet_sizes[d]
                /\ \A e \in 1..(d - 1) :
                      \A i \in 1..Len(items) :
                          items[i] # default_packet_sizes[e]])
    ELSE IF MinSize(items, 1, 0) = 0 THEN ReturnNone
    ELSE ReturnValue(Digits(PyStr(MinSize(items, 1, 0))))

\* the groups that _matrix_group_streams adds for the families with streams
CellGroups(source, dest, cell) ==
    (IF cell.ipv4 > 0 THEN <<[source |-> source, dest |-> dest,
                              family |-> "ipv4"]>> ELSE <<>>)
    \o (IF cell.ipv6 > 0 THEN <<[source |-> source, dest |-> dest,
                                 family |-> "ipv6"]>> ELSE <<>>)
SplitOf(optdict) ==
    IF optdict.split = "ipv4" THEN "IPV4"
    ELSE IF optdict.split = "ipv6" THEN "IPV6"
    ELSE "FAMILY"
\* "_".join of the parts of the label of a cell
CacheLabel(viewstyle, source, dest, port, packet_size, split) ==
    <<AmpTcpping, viewstyle, source, dest, Digits(PyStr(port)), packet_size,
      split>>
\* views[(source, dest)] = viewid
SetView(views, source, dest, viewid) ==
    [c \in DOMAIN views \cup {<<source, dest>>} |->
        IF c = <<source, dest>> THEN viewid ELSE views[c]]

\* update_matrix_groups keeping a failed cell for good
UpdateMatrixGroups_FailureSticks(c, source, dest, optdict, groups, views, viewstyle, cell) ==
    LET find1 == Called("find_selections",
                        [source |-> source, destination |-> dest],
                        cell.ports)
        port == ChosenPort(cell.ports.value.items)
        find2 == Called("find_selections",
                        [source |-> source, destination |-> dest,
                         port |-> port], cell.sizes)
        size == ChosenSize(cell.sizes.value.items)
        found == groups \o CellGroups(source, dest, cell)
        cachelabel == CacheLabel(viewstyle, source, dest, port, size.value,
                                 SplitOf(optdict))
        key == MatrixViewKey(cachelabel)
        viewid == IF key \in DOMAIN c THEN ReturnValue(c[key].value)
                  ELSE ReturnNone
        search == Called("search_matrix_view", [label |-> cachelabel],
                         viewid)
        creategroup == Called("create_group_from_list",
                              [label |-> cachelabel],
                              IF cell.cellgroup THEN ReturnValue(cachelabel)
                              ELSE ReturnNone)
        addview == Called("add_groups_to_view", [label |-> cachelabel],
                          cell.viewid)
        Out(r, c2, g2, v2, calls) ==
            [ret |-> r, cache |-> c2, groups |-> g2, views |-> v2,
             trace |-> calls]
        stop == "return"
    IN  IF cell.ports = ReturnNone \/ cell.ports.value.req # "port"
        THEN Out(stop, c, groups, views, <<find1>>)
        ELSE IF cell.ports.value.items = <<>>
        THEN Out(stop, c, groups, SetView(views, source, dest, -1),
                 <<find1>>)
        ELSE IF cell.sizes = ReturnNone
                \/ cell.sizes.value.req # "packet_size"
        THEN Out(stop, c, groups, views, <<find1, find2>>)
        ELSE IF cell.sizes.value.items = <<>>
        THEN Out(stop, c, groups, SetView(views, source, dest, -1),
                 <<find1, find2>>)
        ELSE IF size = ReturnNone
        THEN Out(stop, c, groups, views, <<find1, find2>>)
        ELSE IF cell.ipv4 = 0 /\ cell.ipv6 = 0
        THEN Out(stop, c, found, SetView(views, source, dest, -1),
                 <<find1, find2>>)
        ELSE IF viewid # ReturnNone
        THEN Out(stop, CacheRead(c, key), found,
                 SetView(views, source, dest, viewid.value),
                 <<find1, find2, search>>)
        ELSE IF ~cell.cellgroup
        THEN Out(stop, c, found, views,
                 <<find1, find2, search, creategroup>>)
        ELSE IF cell.viewid = ReturnNone
        THEN Out(stop, store_matrix_view(c, cachelabel, -1, 0), found,
                 SetView(views, source, dest, -1),
                 <<find1, find2, search, creategroup, addview,
                   Called("store_matrix_view",
                          [label |-> cachelabel, viewid |-> -1, ttl |-> 0],
                          ReturnNone)>>)
        ELSE Out(stop, store_matrix_view(c, cachelabel, cell.viewid.value, 0),
                 found, SetView(views, source, dest, cell.viewid.value),
                 <<find1, find2, search, creategroup, addview,
                   Called("store_matrix_view",
                          [label |-> cachelabel,
                           viewid |-> cell.viewid.value, ttl |-> 0],
                          ReturnNone)>>)

\* update_matrix_groups of AmpTcpping for the cell of source and dest, the
\* objects it uses answering as cell says: the cache, the groups and the
\* views afterwards, and the calls made
UpdateMatrixGroups(c, source, dest, optdict, groups, views, viewstyle, cell) ==
    LET find1 == Called("find_selections",
                        [source |-> source, destination |-> dest],
                        cell.ports)
        port == ChosenPort(cell.ports.value.items)
        find2 == Called("find_selections",
                        [source |-> source, destination |-> dest,
                         port |-> port], cell.sizes)
        size == ChosenSize(cell.sizes.value.items)
        found == groups \o CellGroups(source, dest, cell)
        cachelabel == CacheLabel(viewstyle, source, dest, port, size.value,
                                 SplitOf(optdict))
        key == MatrixViewKey(cachelabel)
        viewid == IF key \in DOMAIN c THEN ReturnValue(c[key].value)
                  ELSE ReturnNone
        search == Called("search_matrix_view", [label |-> cachelabel],
                         viewid)
        creategroup == Called("create_group_from_list",
                              [label |-> cachelabel],
                              IF cell.cellgroup THEN ReturnValue(cachelabel)
                              ELSE ReturnNone)
        addview == Called("add_groups_to_view", [label |-> cachelabel],
                          cell.viewid)
        Out(r, c2, g2, v2, calls) ==
            [ret |-> r, cache |-> c2, groups |-> g2, views |-> v2,
             trace |-> calls]
        stop == "return"
    IN  IF cell.ports = ReturnNone \/ cell.ports.value.req # "port"
        THEN Out(stop, c, groups, views, <<find1>>)
        ELSE IF cell.ports.value.items = <<>>
        THEN Out(stop, c, groups, SetView(views, source, dest, -1),
                 <<find1>>)
        ELSE IF cell.sizes = ReturnNone
                \/ cell.sizes.value.req # "packet_size"
        THEN Out(stop, c, groups, views, <<find1, find2>>)
        ELSE IF cell.sizes.value.items = <<>>
        THEN Out(stop, c, groups, SetView(views, source, dest, -1),
                 <<find1, find2>>)
        ELSE IF size = ReturnNone
        THEN Out(stop, c, groups, views, <<find1, find2>>)
        ELSE IF cell.ipv4 = 0 /\ cell.ipv6 = 0
        THEN Out(stop, c, found, SetView(views, source, dest, -1),
                 <<find1, find2>>)
        ELSE IF viewid # ReturnNone
        THEN Out(stop, CacheRead(c, key), found,
                 SetView(views, source, dest, viewid.value),
                 <<find1, find2, search>>)
        ELSE IF ~cell.cellgroup
        THEN Out(stop, c, found, views,
                 <<find1, find2, search, creategroup>>)
        ELSE IF cell.viewid = ReturnNone
        THEN Out(stop, store_matrix_view(c, cachelabel, -1, 300), found,
                 SetView(views, source, dest, -1),
                 <<find1, find2, search, creategroup, addview,
                   Called("store_matrix_view",
                          [label |-> cachelabel, viewid |-> -1, ttl |-> 300],
                          ReturnNone)>>)
        ELSE Out(stop, store_matrix_view(c, cachelabel, cell.viewid.value, 0),
                 found, SetView(views, source, dest, cell.viewid.value),
                 <<find1, find2, search, creategroup, addview,
                   Called("store_matrix_view",
                          [label |-> cachelabel,
                           viewid |-> cell.viewid.value, ttl |-> 0],
                          ReturnNone)>>)

\* update_matrix_groups is called with the split "ipv4" for every cell,
\* and with another split for a cell whose view cannot be added
update_matrix_groups ==
    /\ \E call \in
            {[cell |-> cell, split |-> "ipv4"] : cell \in MatrixCells}
            \cup {[cell |-> [UsualCell EXCEPT !.viewid = ReturnNone],
                    split |-> "both"]} :
        LET done == UpdateMatrixGroups(cache, "s1", "d1",
                                       [split |-> call.split,
                                        metric |-> "rtt"],
                                       <<>>, EmptyDict, "amp-latency",
                                       call.cell)
        IN  /\ acall' = [op |-> "update_matrix_groups", source |-> "s1",
                         dest |-> "d1", split |-> call.split]
            /\ cache' = done.cache
            /\ atrace' = done.trace
            /\ aret' = ReturnValue([groups |-> done.groups,
                                    views |-> done.views])
    /\ UNCHANGED <<started, savedcoldata>>
    /\ UNCHANGED <<nvars, svars, pvars>>

\* ------------------------------------------------------ the matrix data
\* the loops of _get_matrix_groups over the sources and the destinations,
\* from source i and destination j on; update_matrix_groups is worked out
\* once for a cell, its outcome bound to done
RECURSIVE CellLoop(_, _, _, _, _, _, _, _, _, _, _, _)
CellLoop(c, sources, destinations, i, j, optdict, groups, views, trace, viewstyle, cell, other) ==
    IF i > Len(sources)
    THEN [cache |-> c, groups |-> groups, views |-> views, trace |-> trace]
    ELSE IF j > Len(destinations)
    THEN CellLoop(c, sources, destinations, i + 1, 1, optdict, groups,
                  views, trace, viewstyle, cell, other)
    ELSE CHOOSE rest \in
            {CellLoop(done.cache, sources, destinations, i, j + 1, optdict,
                      done.groups, done.views, trace \o done.trace,
                      viewstyle, cell, other) :
                done \in {UpdateMatrixGroups(
                             c, sources[i], destinations[j], optdict, groups,
                             views, viewstyle,
                             IF destinations[j] = "d1" THEN cell
                             ELSE other)}} : TRUE

\* _get_matrix_groups of the collection amp-tcpping
GetMatrixGroups(c, viewstyle, options, matrix, cell, other) ==
    LET update == Called("update_streams", [col |-> AmpTcpping],
                         IF matrix.updated THEN ReturnValue(TRUE)
                         ELSE ReturnNone)
        getsources == Called("get_mesh_sources", [mesh |-> options[1]],
                             matrix.sources)
        getdests == Called("get_mesh_destinations", [mesh |-> options[2]],
                           matrix.destinations)
        optdict == [split |-> options[3], metric |-> options[4]]
        done == CellLoop(c, matrix.sources.value, matrix.destinations.value,
                         1, 1, optdict, <<>>, EmptyDict,
                         <<update, getsources, getdests>>, viewstyle, cell,
                         other)
        Failed(calls) == [ret |-> ReturnNone, cache |-> c, trace |-> calls]
    IN  IF Len(options) < 4 THEN Failed(<<>>)
        ELSE IF ~matrix.updated THEN Failed(<<update>>)
        ELSE IF matrix.sources = ReturnNone
        THEN Failed(<<update, getsources>>)
        ELSE IF matrix.destinations = ReturnNone
        THEN Failed(<<update, getsources, getdests>>)
        ELSE [ret |-> ReturnValue([groups |-> done.groups,
                                   sources |-> matrix.sources.value,
                                   destinations |-> matrix.destinations.value,
                                   views |-> done.views]),
              cache |-> done.cache, trace |-> done.trace]

\* The calls of get_matrix_data.  The options are the two meshes, then
\* the split and the metric.  The collection and the meshes answer with
\* update_streams, the sources and the destinations of the meshes and the
\* recent data of the groups; the cell of "d1" has its answers, and the
\* other cells have no stream, or no answer.  Every list of options is
\* called with the usual answers, and with the longest list the other
\* answers one at a time.
UsualMatrixCall ==
    [options |-> <<"srcmesh", "dstmesh", "ipv4", "rtt">>,
     matrix |-> [updated |-> TRUE, sources |-> ReturnValue(<<"s1">>),
                 destinations |-> ReturnValue(<<"d1", "d2">>),
                 recent |-> TRUE],
     cell |-> UsualCell,
     other |-> [UsualCell EXCEPT !.ports = Selections2("port", <<>>)],
     fails |-> NoFailures]
MatrixCalls ==
    {[UsualMatrixCall EXCEPT !.options = o] :
        o \in { <<"srcmesh", "dstmesh">>,
                <<"srcmesh", "dstmesh", "ipv4">>,
                <<"srcmesh", "dstmesh", "ipv4", "rtt">>,
                <<"srcmesh", "dstmesh", "both", "rtt">> }}
    \cup {[UsualMatrixCall EXCEPT !.matrix.updated = FALSE],
          [UsualMatrixCall EXCEPT !.matrix.sources = ReturnNone],
          [UsualMatrixCall EXCEPT !.matrix.destinations = ReturnNone],
          [UsualMatrixCall EXCEPT !.matrix.recent = FALSE],
          [UsualMatrixCall EXCEPT !.cell.viewid = ReturnNone],
          [UsualMatrixCall EXCEPT !.cell.sizes = ReturnNone],
          [UsualMatrixCall EXCEPT !.other.ports = ReturnNone],
          [UsualMatrixCall EXCEPT !.fails.update = {AmpTcpping}],
          [UsualMatrixCall EXCEPT
              !.options = <<"srcmesh", "dstmesh", "both", "rtt">>,
              !.cell.viewid = ReturnNone]}

get_matrix_data ==
    /\ \E call \in MatrixCalls :
        \E matrixgroups \in {GetMatrixGroups(cache, "amp-latency",
                                              call.options, call.matrix,
                                              call.cell, call.other)} :
        LET options == call.options
            matrix == call.matrix
            fails == call.fails
            collection == AmpTcpping
            col == GetCol(savedcoldata, collection, fails)
            getcol == Called("_getcol", [col |-> collection], col)
            fetcheddata ==
                IF matrix.recent
                THEN ReturnValue([data |-> matrixgroups.ret.value.groups,
                                  timeouts |-> <<>>])
                ELSE ReturnNone
            fetch == Called("get_collection_recent",
                            [col |-> collection,
                             labels |-> matrixgroups.ret.value.groups],
                            fetcheddata)
        IN  /\ acall' = [op |-> "get_matrix_data",
                         collection |-> collection, options |-> options]
            /\ IF col = ReturnNone
               THEN /\ atrace' = <<getcol>>
                    /\ aret' = ReturnNone
                    /\ cache' = cache
               ELSE /\ cache' = matrixgroups.cache
                    /\ IF matrixgroups.ret = ReturnNone
                       THEN /\ atrace' = <<getcol>> \o matrixgroups.trace
                            /\ aret' = ReturnNone
                       ELSE /\ atrace' = (<<getcol>> \o matrixgroups.trace)
                                            \o <<fetch>>
                            /\ aret' =
                                 IF fetcheddata = ReturnNone THEN ReturnNone
                                 ELSE ReturnValue(
                                    [data |-> fetcheddata.value.data,
                                     timeouts |-> fetcheddata.value.timeouts,
                                     sources |->
                                        matrixgroups.ret.value.sources,
                                     destinations |->
                                        matrixgroups.ret.value.destinations,
                                     views |-> matrixgroups.ret.value.views])
    /\ UNCHANGED <<started, savedcoldata>>
    /\ UNCHANGED <<nvars, svars, pvars>>

\* ------------------------------------------------------------ modify_view
\* modify_view with the answers of the objects it uses: newgroup is what
\* the collection makes of the options (None when it cannot), maxgroups
\* its maximum number of groups in a view, answer what the view store
\* returns; the options are a list, or a dictionary when isdict
ModifyView_KeepsView(saved, collection, view_id, viewstyle, action, options, isdict, newgroup, maxgroups, answer, fails) ==
    IF Len(options) = 0 THEN [ret |-> ReturnValue(view_id), trace |-> <<>>]
    ELSE IF action = "add"
    THEN IF GetCol(saved, collection, fails) = ReturnNone
         THEN [ret |-> ReturnNone, trace |-> <<>>]
         ELSE LET made == <<Called(IF isdict THEN "create_group_description"
                                   ELSE "create_group_from_list",
                                   [options |-> options], newgroup)>>
              IN  IF newgroup = ReturnNone
                  THEN [ret |-> ReturnValue(view_id), trace |-> made]
                  ELSE [ret |-> answer,
                        trace |-> made \o
                          <<Called("get_maximum_view_groups", <<>>,
                                   ReturnValue(maxgroups)),
                            Called("add_groups_to_view",
                                   [viewstyle |-> viewstyle,
                                    collection |-> collection,
                                    view_id |-> view_id,
                                    groups |-> <<newgroup.value>>],
                                   answer)>>]
    ELSE IF action = "del"
    THEN [ret |-> answer,
          trace |-> <<Called("remove_group_from_view",
                             [viewstyle |-> viewstyle, view_id |-> view_id,
                              groupid |-> PyInt(options[1].digits)],
                             answer)>>]
    ELSE [ret |-> ReturnValue(view_id), trace |-> <<>>]

ModifyView(saved, collection, view_id, viewstyle, action, options, isdict, newgroup, maxgroups, answer, fails) ==
    IF Len(options) = 0 THEN [ret |-> ReturnValue(view_id), trace |-> <<>>]
    ELSE IF action = "add"
    THEN IF GetCol(saved, collection, fails) = ReturnNone
         THEN [ret |-> ReturnNone, trace |-> <<>>]
         ELSE LET made == <<Called(IF isdict THEN "create_group_description"
                                   ELSE "create_group_from_list",
                                   [options |-> options], newgroup)>>
              IN  IF newgroup = ReturnNone
                  THEN [ret |-> ReturnValue(view_id), trace |-> made]
                  ELSE [ret |-> answer,
                        trace |-> made \o
                          <<Called("get_maximum_view_groups", <<>>,
                                   ReturnValue(maxgroups)),
                            Called("add_groups_to_view",
                                   [viewstyle |-> viewstyle,
                                    collection |-> collection,
                                    view_id |-> IF maxgroups = 1 THEN 0
                                                ELSE view_id,
                                    groups |-> <<newgroup.value>>],
                                   answer)>>]
    ELSE IF action = "del"
    THEN [ret |-> answer,
          trace |-> <<Called("remove_group_from_view",
                             [viewstyle |-> viewstyle, view_id |-> view_id,
                              groupid |-> PyInt(options[1].digits)],
                             answer)>>]
    ELSE [ret |-> ReturnValue(view_id), trace |-> <<>>]

\* the calls of modify_view: the usual "add" of a group of amp-icmp to a
\* view, and the calls that differ from it in one place
modify_view ==
    /\ \E call \in
          LET usual == [collection |-> AmpIcmp, view_id |-> 1,
                        action |-> "add", options |-> <<Digits(<<5>>)>>,
                        isdict |-> FALSE, newgroup |-> ReturnValue("group"),
                        maxgroups |-> 0, answer |-> ReturnValue(NewViewId),
                        fails |-> NoFailures]
          IN  {usual}
              \cup {[usual EXCEPT !.action = a, !.options = o] :
                      a \in {"add", "del", "edit"},
                      o \in {<<>>, <<Digits(<<5>>)>>}}
              \cup {[usual EXCEPT !.newgroup = ReturnNone, !.maxgroups = n] :
                      n \in {0, 1}}
              \cup {[usual EXCEPT !.maxgroups = n] : n \in {1, 2}}
              \cup {[usual EXCEPT !.answer = ReturnNone],
                    [usual EXCEPT !.isdict = TRUE],
                    [usual EXCEPT !.view_id = 2, !.maxgroups = 1],
                    [usual EXCEPT !.fails.update = {AmpIcmp}]} :
        LET done == ModifyView(savedcoldata, call.collection, call.view_id,
                               "amp-latency", call.action, call.options,
                               call.isdict, call.newgroup, call.maxgroups,
                               call.answer, call.fails)
        IN  /\ acall' = [op |-> "modify_view", view_id |-> call.view_id,
                         action |-> call.action,
                         options |-> call.options]
            /\ atrace' = done.trace
            /\ aret' = done.ret
    /\ UNCHANGED <<cache, started, savedcoldata>>
    /\ UNCHANGED <<nvars, svars, pvars>>

\* ------------------------------------------------------- the Ampy object
\* the calls that read and fill the matrix of amp-tcpping
MatrixNext ==
    \/ start
    \/ update_matrix_groups
    \/ get_matrix_data
    \/ Tick

MatrixSpec == Init /\ [][MatrixNext]_vars

\* the calls that read and change the views
AmpyNext ==
    \/ start
    \/ view_to_groups
    \/ get_recent_data
    \/ get_historic_data
    \/ get_view_legend
    \/ test_graphtab_view
    \/ modify_view
    \/ Tick

AmpySpec == Init /\ [][AmpyNext]_vars

\* ------------------------------------------------------------------ C22
ViewToGroupsCall == acall.op = "_view_to_groups"
CallsTo(fn) == {n \in 1..Len(atrace) : atrace[n].fn = fn}
\* the view was in the cache when the call began
CacheHit == atrace[1].answer # ReturnNone

\* C22: _view_to_groups looks in the cache first and asks the view store
\* only when the cache has no entry; it stores what the view store gave
\* when that is not empty, never an empty or a failed answer, and on a hit
\* it stores the entry again, which then has its whole time to live.
C22_CacheFirstThenViewStore ==
    ViewToGroupsCall =>
        /\ atrace[1].fn = "search_view_groups"
        /\ atrace[1].args = <<acall.view_id>>
        /\ CallsTo("get_view_groups") = IF CacheHit THEN {} ELSE {2}
        /\ CacheHit =>
              /\ aret = atrace[1].answer
              /\ CallsTo("store_view_groups") = {2}
              /\ atrace[2].args = <<acall.view_id, aret.value>>
              /\ cache[ViewGroupsKey(acall.view_id)]
                    = [value |-> aret.value, expiry |-> SlideOnRead]
        /\ ~CacheHit =>
              /\ atrace[2].args = <<acall.viewstyle, acall.view_id>>
              /\ aret = atrace[2].answer
              /\ IF aret # ReturnNone /\ aret.value # <<>>
                 THEN /\ CallsTo("store_view_groups") = {3}
                      /\ atrace[3].args = <<acall.view_id, aret.value>>
                      /\ cache[ViewGroupsKey(acall.view_id)].value
                            = aret.value
                 ELSE /\ CallsTo("store_view_groups") = {}
                      /\ ViewGroupsKey(acall.view_id) \notin DOMAIN cache

C22_Witness ==
    /\ ViewToGroupsCall
    /\ CacheHit
    /\ Len(aret.value) = 2

\* ------------------------------------------------------------------ C30
\* a step of start
StartStep == acall'.op = "start"
SavedCount == Cardinality(DOMAIN savedcoldata)

\* C30: start asks the exporter for its collections only until that has
\* worked once.  While it has not, start asks once; a failed query returns
\* None and leaves the object not started, a query that works makes it
\* started and returns the number of saved collections.  Once started,
\* start returns the number of saved collections and asks nothing.
C30_StartQueriesUntilFirstSuccess ==
    [][StartStep =>
        IF started
        THEN /\ atrace' = <<>>
             /\ aret' = ReturnValue(SavedCount)
             /\ started'
             /\ savedcoldata' = savedcoldata
        ELSE /\ Len(atrace') = 1
             /\ atrace'[1].fn = "request_collections"
             /\ IF atrace'[1].answer = ReturnNone
                THEN /\ aret' = ReturnNone
                     /\ ~started'
                     /\ savedcoldata' = savedcoldata
                ELSE /\ started'
                     /\ aret' = ReturnValue(Cardinality(DOMAIN savedcoldata'))
    ]_vars

C30_Witness ==
    /\ acall.op = "start"
    /\ started
    /\ atrace = <<>>
    /\ aret = ReturnValue(2)

\* ------------------------------------------------------------------ C23
DataCall == acall.op \in {"get_recent_data", "get_historic_data"}
\* the requests for data that the last call made of the collections
DataRequests ==
    CallsTo("get_collection_recent") \cup CallsTo("get_collection_history")

\* C23: when the request for the data of one collection of the view fails,
\* get_recent_data and get_historic_data return None.
C23_FailedRequestFailsCall ==
    DataCall =>
        ((\E n \in DataRequests : atrace[n].answer = ReturnNone)
            => aret = ReturnNone)

\* ------------------------------------------------------------------ C24
\* C24: when the labels of one group of the view cannot be found,
\* get_recent_data and get_historic_data return None.
C24_FailedLabelsFailCall ==
    DataCall =>
        ((\E n \in CallsTo("group_to_labels") : atrace[n].answer = ReturnNone)
            => aret = ReturnNone)

\* ------------------------------------------------------------------ C25
HistoricSuccess == acall.op = "get_historic_data" /\ aret # ReturnNone
\* the collections of the view that the call was made for, as the call got
\* them from _view_to_groups
KindsOfView ==
    LET got == IF atrace[1].answer # ReturnNone THEN atrace[1].answer
               ELSE atrace[2].answer
    IN  {got.value[n].k : n \in 1..Len(got.value)}
HistoryRequestsOf(colname) ==
    {n \in CallsTo("get_collection_history") : atrace[n].args.col = colname}
\* the labels that were found for the groups of a collection, in the order
\* of the calls, from the n-th call of the trace on
RECURSIVE FoundLabels(_, _)
FoundLabels(colname, n) ==
    IF n > Len(atrace) THEN <<>>
    ELSE IF /\ atrace[n].fn = "group_to_labels"
            /\ atrace[n].args.col = colname
            /\ atrace[n].answer # ReturnNone
         THEN atrace[n].answer.value \o FoundLabels(colname, n + 1)
         ELSE FoundLabels(colname, n + 1)
\* the labels of the groups of another collection
LabelsElsewhere(colname) ==
    UNION {{atrace[n].answer.value[i] :
                i \in 1..Len(atrace[n].answer.value)} :
           n \in {m \in CallsTo("group_to_labels") :
                    /\ atrace[m].args.col # colname
                    /\ atrace[m].answer # ReturnNone}}
\* the union of the answers to the requests for history
HistoryUnion ==
    UNION {{<<l, atrace[n].answer.value[l]>> :
                l \in DOMAIN atrace[n].answer.value} :
           n \in CallsTo("get_collection_history")}

\* C25: a get_historic_data that succeeds has made one request for history
\* for each collection of the view; the request carries the labels found
\* for all the groups of that collection and no label of a group of
\* another collection, and the history returned is the union of the
\* answers by label.
C25_OneHistoryRequestPerKind ==
    HistoricSuccess =>
        /\ \A colname \in KindsOfView :
              /\ Cardinality(HistoryRequestsOf(colname)) = 1
              /\ \A n \in HistoryRequestsOf(colname) :
                    /\ atrace[n].args.labels = FoundLabels(colname, 1)
                    /\ \A i \in 1..Len(atrace[n].args.labels) :
                          atrace[n].args.labels[i]
                              \notin LabelsElsewhere(colname)
        /\ \A n \in CallsTo("get_collection_history") :
              atrace[n].args.col \in KindsOfView
        /\ {<<l, aret.value.history[l]>> : l \in DOMAIN aret.value.history}
              = HistoryUnion

C25_Witness ==
    /\ HistoricSuccess
    /\ Cardinality(KindsOfView) = 2
    /\ Cardinality(DOMAIN aret.value.history) = 4

\* ------------------------------------------------------------------ C26
LegendReturned == acall.op = "get_view_legend" /\ aret # ReturnNone
\* the groups of the view that the call was made for, as the call got them
\* from _view_to_groups
GroupsOfView ==
    IF atrace[1].answer # ReturnNone THEN atrace[1].answer.value
    ELSE atrace[2].answer.value
\* the description of a group of a collection of the view
DescrOf(colname, gid) ==
    LET vgs == DictGet(GroupsOfView, colname)
    IN  vgs[CHOOSE n \in 1..Len(vgs) : vgs[n].gid = gid].descr

\* C26: the legend lists the groups sorted by the name of the collection,
\* and within one collection by the id of the group.
C26_LegendByKindThenGroupId ==
    LegendReturned =>
        \A i, j \in 1..Len(aret.value) :
            i < j =>
                \/ ValLt(aret.value[i].collection, aret.value[j].collection)
                \/ /\ aret.value[i].collection = aret.value[j].collection
                   /\ aret.value[i].group_id < aret.value[j].group_id

\* C26 as the code has it: the legend lists the groups sorted by the name
\* of the collection, and within one collection by the description of the
\* group.
C26_LegendByKindThenDescription ==
    LegendReturned =>
        \A i, j \in 1..Len(aret.value) :
            i < j =>
                \/ ValLt(aret.value[i].collection, aret.value[j].collection)
                \/ /\ aret.value[i].collection = aret.value[j].collection
                   /\ ~ValLt(DescrOf(aret.value[j].collection,
                                     aret.value[j].group_id),
                             DescrOf(aret.value[i].collection,
                                     aret.value[i].group_id))

\* a legend of two collections that the view store gave in another order,
\* with two groups of one collection
C26_Witness ==
    /\ LegendReturned
    /\ Len(aret.value) = 3
    /\ DictKeys(GroupsOfView) = <<AmpIcmp, AmpDns>>
    /\ aret.value[1].collection = AmpDns
    /\ aret.value[2].group_id = 2
    /\ aret.value[3].group_id = 1

\* ------------------------------------------------------------------ C28
TabCall == acall.op = "test_graphtab_view"
SameCollection == StyleName(acall.viewstyle) = acall.tabcollection
\* the calls that answered None to test_graphtab_view
TabErrors ==
    {n \in 1..Len(atrace) :
        /\ atrace[n].fn \in {"get_view_groups", "_getcol"}
        /\ atrace[n].answer = ReturnNone}
\* the number of groups of the view
RECURSIVE GroupCount(_, _)
GroupCount(groups, n) ==
    IF n > Len(groups) THEN 0
    ELSE Len(groups[n].v) + GroupCount(groups, n + 1)
\* a group was translated and its rule matches a stream
SomeGroupMatches ==
    \E n \in CallsTo("group_to_labels") :
        \E i \in 1..Len(atrace[n].answer.value) :
            Len(atrace[n].answer.value[i].streams) > 0

\* C28: test_graphtab_view returns True when the view style is the
\* collection of the tab; otherwise, when nothing failed and the view has
\* no more groups than the collection of the tab allows, it returns True
\* if some group of the view is translated and matches a stream.
C28_TrueWhenAnyGroupTranslates ==
    TabCall =>
        /\ SameCollection => aret = ReturnValue(TRUE)
        /\ (/\ ~SameCollection
            /\ TabErrors = {}
            /\ GroupCount(GroupsOfView, 1)
                  <= atrace[CHOOSE n \in CallsTo("get_maximum_view_groups") :
                                TRUE].answer.value
            /\ SomeGroupMatches)
              => aret = ReturnValue(TRUE)

\* ------------------------------------------------------------------ C29
MatrixCall == acall.op = "get_matrix_data"
ValidCollection == atrace[1].answer # ReturnNone

\* C29: with a collection that Ampy can use, get_matrix_data does not fail
\* on an options list of two or three items because of its length: when it
\* returns None, a call that it made has failed.
C29_TwoOptionsAreEnough ==
    (/\ MatrixCall
     /\ ValidCollection
     /\ Len(acall.options) \in {2, 3})
        => (aret = ReturnNone
                => \E n \in 1..Len(atrace) : atrace[n].answer = ReturnNone)

\* ------------------------------------------------------------------ C27
CellCall == acall.op = "update_matrix_groups"
CellOfCall == <<acall.source, acall.dest>>
\* a miss of the cache is followed by the making of the group and, the
\* group made, by the adding of the view; a hit is followed by nothing, and
\* the cell then has the view that the cache had
CellSearch ==
    \A n \in CallsTo("search_matrix_view") :
        IF atrace[n].answer = ReturnNone
        THEN /\ atrace[n + 1].fn = "create_group_from_list"
             /\ atrace[n + 1].answer # ReturnNone
                   => atrace[n + 2].fn = "add_groups_to_view"
        ELSE /\ n = Len(atrace)
             /\ aret.value.views[CellOfCall] = atrace[n].answer.value
\* a view that was added is stored for good, and a view that could not be
\* added is stored as -1 for 300 seconds; the cell has what was stored
CellStore ==
    \A n \in CallsTo("add_groups_to_view") :
        LET key == MatrixViewKey(atrace[n].args.label)
            viewid == IF atrace[n].answer = ReturnNone THEN -1
                      ELSE atrace[n].answer.value
        IN  /\ atrace[n - 2].fn = "search_matrix_view"
            /\ atrace[n - 2].answer = ReturnNone
            /\ atrace[n - 2].args.label = atrace[n].args.label
            /\ n + 1 = Len(atrace)
            /\ atrace[n + 1].fn = "store_matrix_view"
            /\ atrace[n + 1].args
                  = [label |-> atrace[n].args.label, viewid |-> viewid,
                     ttl |-> IF viewid = -1 THEN 300 ELSE 0]
            /\ aret.value.views[CellOfCall] = viewid
            /\ cache[key]
                  = [value |-> viewid,
                     expiry |-> IF viewid = -1 THEN FixedTTL ELSE Sticky]
\* a view that is stored for good stays as it is, and no call gives a
\* stored -1 more time
CellEntriesAge ==
    \A k \in DOMAIN cache :
        /\ cache[k].expiry = Sticky
              => k \in DOMAIN cache' /\ cache'[k] = cache[k]
        /\ (/\ cache[k].expiry.policy = "fixed"
            /\ k \in DOMAIN cache'
            /\ cache'[k].expiry.policy = "fixed")
              => \/ cache'[k].expiry.left <= cache[k].expiry.left
                 \/ /\ acall'.op = "update_matrix_groups"
                    /\ "add_groups_to_view"
                          \in {atrace'[n].fn : n \in 1..Len(atrace')}

\* C27: update_matrix_groups asks the view store for the view of a cell
\* only when the cache has none for the label of the cell.  A view that was
\* added is stored with a time to live of 0, which is no expiry, and is the
\* view of the cell in this and every later call for the label; a view
\* that could not be added is stored as -1 with a time to live of 300 and
\* the cell is -1; the -1 is not given more time by later calls, and once
\* it is gone the next call asks the view store again.
C27_MatrixCellCaching ==
    /\ [](CellCall => (CellSearch /\ CellStore))
    /\ [][CellEntriesAge]_vars

\* the view of an earlier call is used again
C27_Witness ==
    /\ CellCall
    /\ Len(atrace) = 3
    /\ atrace[3].fn = "search_matrix_view"
    /\ atrace[3].answer = ReturnValue(NewViewId)
    /\ aret.value.views[CellOfCall] = NewViewId

\* ------------------------------------------------------------------ C31
ModifyCall == acall.op = "modify_view"
\* the calls of the view store that change a view
ViewMutations == CallsTo("add_groups_to_view")
                     \cup CallsTo("remove_group_from_view")
\* the group could not be made of the options of an "add"
NoGroupMade ==
    /\ acall.action = "add"
    /\ Len(atrace) > 0
    /\ atrace[1].fn \in {"create_group_from_list", "create_group_description"}
    /\ atrace[1].answer = ReturnNone
\* C31: modify_view returns the view id it was given and changes no view
\* in the view store when the options are empty, when the action is
\* neither "add" nor "del", or when the group of an "add" cannot be made
\* of the options; an "add" for a collection with at most one group in a
\* view adds the group to view 0, a fresh view, not to the given view
C31_ModifyViewUnchangedOrFresh ==
    ModifyCall =>
        /\ (\/ Len(acall.options) = 0
            \/ acall.action \notin {"add", "del"}
            \/ NoGroupMade)
           => /\ aret = ReturnValue(acall.view_id)
              /\ ViewMutations = {}
        /\ \A n \in CallsTo("get_maximum_view_groups") :
              atrace[n].answer = ReturnValue(1)
              => /\ CallsTo("add_groups_to_view") = {n + 1}
                 /\ atrace[n + 1].args.view_id = 0
                 /\ atrace[n + 1].args.groups = <<atrace[1].answer.value>>
                 /\ aret = atrace[n + 1].answer
\* an "add" to view 2 of a collection with one group in a view went to
\* view 0
C31_Witness ==
    /\ ModifyCall
    /\ acall.view_id = 2
    /\ \E n \in CallsTo("get_maximum_view_groups") :
          atrace[n].answer = ReturnValue(1)
    /\ \E n \in CallsTo("add_groups_to_view") : atrace[n].args.view_id = 0

\* ------------------------------------------------------------------ C32
\* a call of add_stream whose properties lack a key leaves the nested
\* dictionaries and the reverse map exactly as they were
FailedAddKeepsIndex ==
    (/\ smcall'.op = "add_stream"
     /\ added' # added
     /\ ~HasAllKeys(smcall'.properties))
        => /\ basedict' = basedict
           /\ sm_streams' = sm_streams
\* the values that find_selections offers at the first level are values
\* of streams that were added
OnlyAddedValuesSelectable ==
    (SelectedFrom /\ smcall.selected = EmptyDict)
        => OpenValues \subseteq
               {added[i].call.properties[keylist[1]] : i \in SuccessfulAdds}
\* C32: an add_stream call that fails because a schema key is missing
\* leaves the whole index unchanged, the hierarchy and the reverse map
\* being what they were before the call, so that no value of the failed
\* stream's earlier properties becomes selectable.
C32_FailedAddLeavesIndexUnchanged ==
    /\ [][FailedAddKeepsIndex]_vars
    /\ []OnlyAddedValuesSelectable

\* ------------------------------------------------------------------ C33
\* the property dictionaries with every key of the schema that the calls
\* are made with
FullProperties == {c.properties : c \in {a \in AddCalls : HasAllKeys(a.properties)}}
\* the ids that find_streams returns for properties
IdsFound(properties) ==
    LET found == find_streams_rec(properties, basedict, 0, <<>>)
    IN  {found[j].id : j \in 1..Len(found)}
\* C33: after any calls of add_stream, also calls that add an id again
\* with other properties, the hierarchy and the reverse map agree:
\* find_streams of a full property dictionary returns an id exactly when
\* find_stream_properties of the id is that dictionary, and no id is in
\* more than one leaf list.
C33_HierarchyAgreesWithReverseMap ==
    /\ \A properties \in FullProperties : \A streamid \in StreamIds :
          streamid \in IdsFound(properties)
              <=> /\ streamid \in DOMAIN sm_streams
                  /\ PropertiesOf(sm_streams[streamid]) = properties
    /\ \A p1, p2 \in FullProperties :
          p1 # p2 => IdsFound(p1) \cap IdsFound(p2) = {}

\* ------------------------------------------------------------------ C34
\* the History fragments of label l that carry a bin size that is neither
\* null nor zero
UsefulBinsizes(l) ==
    {i \in 1..Len(HistoryFragments(l)) :
        HistoryFragments(l)[i].binsize \notin {NoBinsize, 0}}
\* the frequency that the fragments of label l call for
FreqOf(l) ==
    IF HistoryFragments(l) = <<>> THEN 60
    ELSE IF UsefulBinsizes(l) = {} THEN 0
    ELSE HistoryFragments(l)[CHOOSE i \in UsefulBinsizes(l) :
                                \A j \in UsefulBinsizes(l) : i <= j].binsize
\* C34: every entry of a result of request_history has the fields 'freq',
\* 'data' and 'timedout'; 'freq' is the bin size of the first History
\* fragment of the label with a bin size that is neither null nor zero,
\* 0 if the label has History fragments but none with such a bin size,
\* and 60 if the label has no History fragment at all.
C34_EntriesHaveFreq ==
    (HistoryCall /\ Returned) =>
        \A l \in DOMAIN ret.value :
            /\ DOMAIN ret.value[l] = {"freq", "data", "timedout"}
            /\ ret.value[l].freq = FreqOf(l)

\* ------------------------------------------------------------------ C35
\* a message that is not about the request: a History or QueryCancelled
\* fragment of another collection or with no requested label, or a
\* message that describes streams
Foreign(m) ==
    \/ m.type = NNTSC_STREAMS
    \/ /\ m.type = NNTSC_HISTORY
       /\ (m.collection # req.colid \/ m.streamid \notin req.labels)
    \/ /\ m.type = NNTSC_QUERY_CANCELLED
       /\ \/ m.collection # req.colid
          \/ \A i \in 1..Len(m.labels) : m.labels[i] \notin req.labels
\* the response loop of request_history takes a foreign message: the
\* result and the count of complete labels stay, the call goes on waiting
ForeignMessageStep ==
    (/\ HistoryCall
     /\ pc = "await"
     /\ Len(log') = Len(log) + 1
     /\ Foreign(log'[Len(log')]))
        => /\ data' = data
           /\ count' = count
           /\ pc' = "await"
\* C35: in request_history the History and QueryCancelled fragments of a
\* collection other than the requested one or of a label that was not
\* requested, and the messages about streams, have no effect: they
\* neither create nor change an entry of the result nor count towards
\* completion, and the keys of the result are requested labels.
C35_ForeignFragmentsIgnored ==
    /\ [][ForeignMessageStep]_vars
    /\ [](HistoryCall => DOMAIN data \subseteq req.labels)
    /\ []((HistoryCall /\ Returned) => DOMAIN ret.value \subseteq req.labels)
\* a result was returned after a fragment of another collection and a
\* QueryCancelled that names a label nobody asked for
C35_Witness ==
    /\ HistoryCall
    /\ Returned
    /\ DOMAIN ret.value # {}
    /\ \E i \in 1..Len(log) :
          log[i].type \in {NNTSC_HISTORY, NNTSC_QUERY_CANCELLED}
              /\ log[i].collection # req.colid
    /\ \E i \in 1..Len(log) :
          /\ log[i].type = NNTSC_QUERY_CANCELLED
          /\ log[i].collection = req.colid
          /\ \E j \in 1..Len(log[i].labels) :
                log[i].labels[j] \notin req.labels

\* ------------------------------------------------------------------ C36
\* the call found ports for the cell and went on with one of them
PortChosen ==
    /\ CellCall
    /\ Len(atrace) >= 2
    /\ atrace[2].fn = "find_selections"
\* the ports that the stream manager has for the pair
AvailablePorts ==
    {PyInt(atrace[1].answer.value.items[i].digits) :
        i \in 1..Len(atrace[1].answer.value.items)}
\* the first port of the preference list that is available, the lowest
\* available port when none of the list is
PreferredPort ==
    IF \E p \in 1..Len(portpreferences) : portpreferences[p] \in AvailablePorts
    THEN portpreferences[CHOOSE p \in 1..Len(portpreferences) :
             /\ portpreferences[p] \in AvailablePorts
             /\ \A q \in 1..(p - 1) : portpreferences[q] \notin AvailablePorts]
    ELSE CHOOSE port \in AvailablePorts : \A other \in AvailablePorts : port <= other
\* C36: update_matrix_groups of amp-tcpping selects for a cell the port
\* that comes first in the preference list [443, 53, 80] among the ports
\* available for the pair, and the lowest available port only when none
\* of the three is available.
C36_FirstPreferredPort ==
    PortChosen => atrace[2].args.port = PreferredPort

\* ------------------------------------------------------------------ C37
\* the sources and the destinations of the meshes of the matrix that was
\* returned, as sets
MatrixSources ==
    {aret.value.sources[i] : i \in 1..Len(aret.value.sources)}
MatrixDestinations ==
    {aret.value.destinations[j] : j \in 1..Len(aret.value.destinations)}
\* C37: when _get_matrix_groups returns for amp-tcpping, the views that
\* it returns have an entry, a view id or -1, for every pair of a source
\* of the source mesh and a destination of the destination mesh, also for
\* a pair that the stream manager knows no stream of.
C37_ViewForEveryCell ==
    (MatrixCall /\ aret # ReturnNone) =>
        \A s \in MatrixSources, d \in MatrixDestinations :
            <<s, d>> \in DOMAIN aret.value.views

\* ------------------------------------------------------------------ C38
\* the line indexes of a legend, in the order the lines are listed
RECURSIVE LineIds(_)
LineIds(legend) ==
    IF legend = <<>> THEN <<>>
    ELSE [i \in 1..Len(Head(legend).lines) |-> Head(legend).lines[i].lineid]
             \o LineIds(Tail(legend))
\* the groups whose labels could not be found during the call
UnresolvedGroups ==
    {atrace[n].args.gid :
        n \in {k \in CallsTo("group_to_labels") :
                 atrace[k].answer = ReturnNone}}
\* the number of labels found during the call
RECURSIVE LabelCount(_)
LabelCount(n) ==
    IF n = 0 THEN 0
    ELSE LabelCount(n - 1)
         + (IF atrace[n].fn = "group_to_labels"
               /\ atrace[n].answer # ReturnNone
            THEN Len(atrace[n].answer.value) ELSE 0)
\* C38: in the legend that get_view_legend returns the line indexes of
\* all lines of all groups are 0, 1, ..., n-1 in the order the lines are
\* listed, n being the number of lines; a group whose labels cannot be
\* found has no legend entry and takes no index.
C38_LineIndexesCountUp ==
    LegendReturned =>
        /\ \A i \in 1..Len(LineIds(aret.value)) :
              LineIds(aret.value)[i] = i - 1
        /\ Len(LineIds(aret.value)) = LabelCount(Len(atrace))
        /\ \A k \in 1..Len(aret.value) :
              aret.value[k].group_id \notin UnresolvedGroups
\* a legend of two groups and three lines, listed after a group whose
\* labels could not be found
C38_Witness ==
    /\ LegendReturned
    /\ Len(aret.value) = 2
    /\ Len(LineIds(aret.value)) = 3
    /\ Len(aret.value[2].lines) = 2
    /\ UnresolvedGroups # {}

\* ------------------------------------------------------------------ C39
\* C39: after any calls of _view_to_groups, the groups returned for
\* (viewstyle, view_id) are the groups that the view store holds for that
\* pair: an entry that the cache got for a view id under one viewstyle is
\* never the answer for the same view id under another viewstyle.
C39_GroupsOfTheViewAskedFor ==
    (ViewToGroupsCall /\ aret # ReturnNone) =>
        aret.value = ViewStore(acall.viewstyle, acall.view_id)

\* ------------------------------------------------------------------ C40
\* the calls of add_stream for the pair of source s and host h
AddsOfPair(s, h) ==
    {i \in 1..Len(spadded) : spadded[i].source = s /\ spadded[i].host = h}
\* the three maps list the same pairs, those that add_stream was called
\* with, and self.streams has the id of the last call for a pair
MapsAgree ==
    \A s \in SmokeSources, h \in SmokeHosts :
        /\ (h \in DOMAIN sp_sources /\ s \in DOMAIN sp_sources[h])
              <=> (s \in DOMAIN sp_destinations
                      /\ h \in DOMAIN sp_destinations[s])
        /\ (s \in DOMAIN sp_destinations /\ h \in DOMAIN sp_destinations[s])
              <=> <<s, h>> \in DOMAIN sp_streams
        /\ <<s, h>> \in DOMAIN sp_streams <=> AddsOfPair(s, h) # {}
\* what the calls that read the maps return
ReadsAgree ==
    /\ spcall.op = "_get_sources" /\ spcall.dst # "None"
          => spret.value = {s \in SmokeSources :
                              AddsOfPair(s, spcall.dst) # {}}
    /\ spcall.op = "_get_destinations" /\ spcall.src # "None"
          => spret.value = {h \in SmokeHosts :
                              AddsOfPair(spcall.src, h) # {}}
    /\ spcall.op = "get_stream_id"
          => IF DOMAIN spcall.params # {"source", "host"}
             THEN spret.value = -1
             ELSE LET adds == AddsOfPair(spcall.params["source"],
                                         spcall.params["host"])
                  IN  IF adds = {} THEN spret.value = -1
                      ELSE spret.value =
                             spadded[CHOOSE i \in adds :
                                        \A j \in adds : j <= i].stream_id
\* C40: after any calls of SmokepingParser.add_stream the three maps
\* agree: a source s is among the sources that test to host h exactly
\* when h is among the destinations of s, exactly when get_stream_id of
\* the pair is not -1; get_stream_id returns the id of the stream added
\* last for the pair, and -1 when 'source' or 'host' is missing from the
\* parameters.
C40_SmokepingMapsAgree ==
    MapsAgree /\ ReadsAgree
\* the id of the second stream of a pair was returned, while another
\* source tests to the same host
C40_Witness ==
    /\ spcall.op = "get_stream_id"
    /\ DOMAIN spcall.params = {"source", "host"}
    /\ Cardinality(AddsOfPair(spcall.params["source"],
                              spcall.params["host"])) = 2
    /\ spret.value = 2
    /\ Cardinality(DOMAIN sp_sources[spcall.params["host"]]) = 2

====
